---- MODULE Spec2Model ----
(***************************************************************************)
(* Model of the dqstutil library: the cell classifier, the dataset         *)
(* scanner, the unique-value extractor and the column editors.  Each       *)
(* specification below draws the arguments of a call from bounded sets, in *)
(* its initial state or in the action, and has one action per library      *)
(* function, which applies it.                                             *)
(*                                                                         *)
(* A Python str is a sequence of one-character strings.  A Python value    *)
(* (a cell) is a record [kind, str]: kind is the Python type, str the      *)
(* characters when kind = "str".  An exception leaving a function is the   *)
(* name of its type; "none" means the function returned.                   *)
(***************************************************************************)
EXTENDS Integers, Sequences, FiniteSets, TLC

VARIABLES pc, called, value, ret, dataset, header, generate_report, printed,
          values, sort, sep, heap, args

\* the arguments of a call of extract_unique_values
extract_vars == <<values, sort, sep>>

\* the list objects a caller of a column editor holds, and the other
\* arguments of the call
edit_vars == <<heap, args>>

vars == <<pc, called, value, ret, dataset, header, generate_report, printed,
          extract_vars, edit_vars>>

(***************************************************************************)
(* Bounds                                                                  *)
(***************************************************************************)
\* longest str drawn as the argument of a classifier function
MaxLen == 4
\* most rows in a dataset
MaxRows == 2

\* the characters strs are built from: a digit, the two date separators,
\* the decimal point, the dollar sign, letters that spell a month prefix
\* ('jan'), 'nan' and the imaginary unit, an upper-case letter, the exponent
Alphabet == {"1", "-", "/", ".", "$", "j", "a", "n", "J", "e"}

\* the strs of n characters
StrsOfLen(n) == [1..n -> Alphabet]

Strs == UNION {StrsOfLen(n) : n \in 0..MaxLen}

Str(s) == [kind |-> "str", str |-> s]
NonStr(k) == [kind |-> k, str |-> <<>>]

\* the Python types of values other than str
NumericKinds == {"int", "float", "complex"}
OtherKinds == {"bool", "NoneType", "list"}

Values == {Str(s) : s \in Strs} \cup {NonStr(k) : k \in NumericKinds \cup OtherKinds}

TypeTags == {"N", "PN", "PD", "T"}

(***************************************************************************)
(* Python built-ins, on ASCII digits and the letters of the model          *)
(***************************************************************************)
At(s, i) == IF i \in 1..Len(s) THEN s[i] ELSE ""

\* str.isdigit() taking '1' for the only digit
char_isdigit_only1(c) == c = "1"

\* str.isdigit() / str.isnumeric() of one character
char_isdigit(c) == c \in {"0", "1", "2", "3", "4", "5", "6", "7", "8", "9"}

\* str.isnumeric(): at least one character and all of them numeric
str_isnumeric(s) == Len(s) > 0 /\ \A i \in 1..Len(s) : char_isdigit(s[i])

char_lower(c) == IF c = "J" THEN "j" ELSE c

\* str.lower()
str_lower(s) == [i \in 1..Len(s) |-> char_lower(s[i])]

\* sub in s
str_contains(sub, s) ==
    \E i \in 1..(Len(s) - Len(sub) + 1) : SubSeq(s, i, i + Len(sub) - 1) = sub

\* the number of digits of s starting at position i
RECURSIVE DigitRun(_, _)
DigitRun(s, i) == IF char_isdigit(At(s, i)) THEN 1 + DigitRun(s, i + 1) ELSE 0

\* s has word at position i, compared case-insensitively
StartsWith(s, i, word) ==
    /\ i + Len(word) - 1 <= Len(s)
    /\ \A k \in 1..Len(word) : char_lower(s[i + k - 1]) = word[k]

\* the position after the exponent that follows the mantissa ending before
\* m, when q is the position of its first digit; m when the exponent has no
\* digit
after_exponent(s, m, q) ==
    IF At(s, m) \in {"e", "E"} /\ DigitRun(s, q) > 0 THEN q + DigitRun(s, q) ELSE m

\* the position after the mantissa's fraction, p2 being the position after
\* its d1 integer digits; i when the mantissa has no digit at all
after_fraction(s, i, p2, d1, d2) ==
    IF d1 + d2 = 0 THEN i
    ELSE IF At(s, p2) = "."
    THEN after_exponent(s, p2 + 1 + d2,
                        IF At(s, p2 + 2 + d2) \in {"+", "-"}
                        THEN p2 + 3 + d2 ELSE p2 + 2 + d2)
    ELSE after_exponent(s, p2,
                        IF At(s, p2 + 1) \in {"+", "-"} THEN p2 + 2 ELSE p2 + 1)

\* the position after the float literal whose sign ends before p1
after_sign(s, i, p1, d1) ==
    IF StartsWith(s, p1, <<"i", "n", "f", "i", "n", "i", "t", "y">>) THEN p1 + 8
    ELSE IF StartsWith(s, p1, <<"i", "n", "f">>) THEN p1 + 3
    ELSE IF StartsWith(s, p1, <<"n", "a", "n">>) THEN p1 + 3
    ELSE after_fraction(s, i, p1 + d1, d1,
                        IF At(s, p1 + d1) = "." THEN DigitRun(s, p1 + d1 + 1) ELSE 0)

\* PyOS_string_to_double(s + i, &end): the position after the longest prefix
\* at i that is a float literal ([sign] digits [. digits] [e [sign] digits],
\* or [sign] inf | infinity | nan); i itself when there is none
string_to_double(s, i) ==
    IF At(s, i) \in {"+", "-"}
    THEN after_sign(s, i, i + 1, DigitRun(s, i + 1))
    ELSE after_sign(s, i, i, DigitRun(s, i))

\* the position after the complex literal whose first float ends before e1
\* and whose second float, if any, ends before e2; 0 when there is no literal
complex_end(s, e1, e2) ==
    IF e1 # 1
    THEN IF At(s, e1) \in {"+", "-"}
         THEN IF e2 # e1
              THEN IF At(s, e2) \in {"j", "J"} THEN e2 + 1 ELSE 0
              ELSE IF At(s, e1 + 1) \in {"j", "J"} THEN e1 + 2 ELSE 0
         ELSE IF At(s, e1) \in {"j", "J"} THEN e1 + 1
         ELSE e1
    ELSE IF At(s, 1) \in {"+", "-"}
         THEN IF At(s, 2) \in {"j", "J"} THEN 3 ELSE 0
         ELSE IF At(s, 1) \in {"j", "J"} THEN 2 ELSE 0

\* the second float of a complex literal is looked for after the first
complex_second(s, e1) == complex_end(s, e1, string_to_double(s, e1))

\* complex(s) returns (TRUE) or raises ValueError (FALSE):
\* <float> | <float>j | <float><signed-float>j | <float><sign>j | <sign>j | j
complex_parses(s) == complex_second(s, string_to_double(s, 1)) = Len(s) + 1

(***************************************************************************)
(* The cell classifier                                                     *)
(***************************************************************************)
to_complex(numstr) == complex_parses(numstr.str)

is_numeric(numstr) ==
    IF numstr.kind # "str" THEN numstr.kind \in NumericKinds
    ELSE str_isnumeric(numstr.str) \/ to_complex(numstr)

month_prefixes ==
    << <<"j", "a", "n">>, <<"f", "e", "b">>, <<"m", "a", "r">>, <<"a", "p", "r">>,
       <<"m", "a", "y">>, <<"j", "u", "n">>, <<"j", "u", "l">>, <<"a", "u", "g">>,
       <<"s", "e", "p">>, <<"o", "c", "t">>, <<"n", "o", "v">>, <<"d", "e", "c">> >>

is_date_separator(char) == char \in {"/", "-"}

\* the exception is_possible_date raises on its argument, "none" for a str:
\* only a str has the method lower
is_possible_date_exc(datestr) ==
    IF datestr.kind = "str" THEN "none" ELSE "AttributeError"

\* is_possible_date taking two or more separators for a date
is_possible_date_2plus(datestr) ==
    LET lowered == str_lower(datestr.str)
    IN  \/ \E k \in 1..Len(month_prefixes) : str_contains(month_prefixes[k], lowered)
        \/ Len(SelectSeq(lowered, is_date_separator)) >= 2

\* the value is_possible_date returns for a str
is_possible_date(datestr) ==
    LET lowered == str_lower(datestr.str)
    IN  \/ \E k \in 1..Len(month_prefixes) : str_contains(month_prefixes[k], lowered)
        \/ Len(SelectSeq(lowered, is_date_separator)) = 2

is_decimal_point(char) == char = "."
is_dollar_sign(char) == char = "$"

\* the exception is_possible_numeric raises on its argument, "none" for a str:
\* a value that is not iterable fails in map(), a list in char.isdigit() or
\* in is_possible_date
is_possible_numeric_exc(numstr) ==
    IF numstr.kind = "str" THEN "none"
    ELSE IF numstr.kind = "list" THEN "AttributeError"
    ELSE "TypeError"

\* is_possible_numeric letting two decimal points pass
is_possible_numeric_2dots(numstr) ==
    LET contains_one_or_more_digits ==
            \E i \in 1..Len(numstr.str) : char_isdigit(numstr.str[i])
        contains_zero_or_one_decimal_point ==
            Len(SelectSeq(numstr.str, is_decimal_point)) <= 2
        contains_zero_or_one_dollar_sign ==
            Len(SelectSeq(numstr.str, is_dollar_sign)) < 2
        is_not_possible_date == ~is_possible_date(numstr)
    IN  /\ contains_one_or_more_digits
        /\ is_not_possible_date
        /\ contains_zero_or_one_decimal_point
        /\ contains_zero_or_one_dollar_sign

\* is_possible_numeric without its exclusion of possible dates
is_possible_numeric_dates(numstr) ==
    LET contains_one_or_more_digits ==
            \E i \in 1..Len(numstr.str) : char_isdigit(numstr.str[i])
        contains_zero_or_one_decimal_point ==
            Len(SelectSeq(numstr.str, is_decimal_point)) < 2
        contains_zero_or_one_dollar_sign ==
            Len(SelectSeq(numstr.str, is_dollar_sign)) < 2
    IN  /\ contains_one_or_more_digits
        /\ contains_zero_or_one_decimal_point
        /\ contains_zero_or_one_dollar_sign

\* the value is_possible_numeric returns for a str
is_possible_numeric(numstr) ==
    LET contains_one_or_more_digits ==
            \E i \in 1..Len(numstr.str) : char_isdigit(numstr.str[i])
        contains_zero_or_one_decimal_point ==
            Len(SelectSeq(numstr.str, is_decimal_point)) < 2
        contains_zero_or_one_dollar_sign ==
            Len(SelectSeq(numstr.str, is_dollar_sign)) < 2
        is_not_possible_date == ~is_possible_date(numstr)
    IN  /\ contains_one_or_more_digits
        /\ is_not_possible_date
        /\ contains_zero_or_one_decimal_point
        /\ contains_zero_or_one_dollar_sign

\* determine_column_type with the PN test ahead of the N test
determine_column_type_pn_first(coldata) ==
    IF coldata.kind = "str" /\ is_possible_numeric(coldata) THEN "PN"
    ELSE IF is_numeric(coldata) THEN "N"
    ELSE IF is_possible_numeric_exc(coldata) # "none"
         THEN is_possible_numeric_exc(coldata)
    ELSE IF is_possible_date(coldata) THEN "PD"
    ELSE "T"

\* the tag determine_column_type returns, or the exception it raises
determine_column_type(coldata) ==
    IF is_numeric(coldata) THEN "N"
    ELSE IF is_possible_numeric_exc(coldata) # "none"
         THEN is_possible_numeric_exc(coldata)
    ELSE IF is_possible_numeric(coldata) THEN "PN"
    ELSE IF is_possible_date(coldata) THEN "PD"
    ELSE "T"

(***************************************************************************)
(* Calls of the classifier functions                                       *)
(***************************************************************************)
Returned(v) == [exc |-> "none", val |-> v]
Raised(e) == [exc |-> e, val |-> "None"]
NoRet == [exc |-> "none", val |-> "unset"]

\* a Python bool as it is returned
Bool(b) == IF b THEN "True" ELSE "False"

Finish(fn, r) ==
    /\ pc = "start"
    /\ pc' = "done"
    /\ called' = fn
    /\ ret' = r

Call_is_numeric ==
    /\ Finish("is_numeric", Returned(Bool(is_numeric(value))))
    /\ UNCHANGED <<value, dataset, header, generate_report, printed, extract_vars, edit_vars>>

Call_is_possible_date ==
    /\ Finish("is_possible_date",
              IF is_possible_date_exc(value) # "none"
              THEN Raised(is_possible_date_exc(value))
              ELSE Returned(Bool(is_possible_date(value))))
    /\ UNCHANGED <<value, dataset, header, generate_report, printed, extract_vars, edit_vars>>

Call_is_possible_numeric ==
    /\ Finish("is_possible_numeric",
              IF is_possible_numeric_exc(value) # "none"
              THEN Raised(is_possible_numeric_exc(value))
              ELSE Returned(Bool(is_possible_numeric(value))))
    /\ UNCHANGED <<value, dataset, header, generate_report, printed, extract_vars, edit_vars>>

Call_determine_column_type ==
    /\ Finish("determine_column_type",
              IF determine_column_type(value) \in TypeTags
              THEN Returned(determine_column_type(value))
              ELSE Raised(determine_column_type(value)))
    /\ UNCHANGED <<value, dataset, header, generate_report, printed, extract_vars, edit_vars>>

\* no call of a column editor is made
NoEdit == heap = <<>> /\ args = <<>>

\* no call of extract_unique_values is made
NoExtract == values = <<>> /\ sort = FALSE /\ sep = <<>>

InitClassify ==
    /\ pc = "start"
    /\ called = "none"
    /\ value \in Values
    /\ ret = NoRet
    /\ dataset = <<>>
    /\ header = <<>>
    /\ generate_report = FALSE
    /\ printed = <<>>
    /\ NoExtract
    /\ NoEdit

NextClassify ==
    \/ Call_is_numeric
    \/ Call_is_possible_date
    \/ Call_is_possible_numeric
    \/ Call_determine_column_type

SpecClassify == InitClassify /\ [][NextClassify]_vars

(***************************************************************************)
(* The dataset scanner                                                     *)
(***************************************************************************)
\* the column names headers are built from; a header may repeat a name
ColNames == {"a", "b"}
\* most columns in a header, and most cells in a row
MaxCols == Cardinality(ColNames)

\* the cells rows are built from: two texts, a numeric str and None
CellValues == {Str(<<"a">>), Str(<<"n">>), Str(<<"1">>), NonStr("NoneType")}

\* the sequences of n elements of S
SeqsOfLen(S, n) == [1..n -> S]

SeqsUpTo(S, n) == UNION {SeqsOfLen(S, k) : k \in 0..n}

Headers == SeqsUpTo(ColNames, MaxCols)
Rows == SeqsUpTo(CellValues, MaxCols)
Datasets == SeqsUpTo(Rows, MaxRows)

Range(s) == {s[i] : i \in 1..Len(s)}
Min(a, b) == IF a < b THEN a ELSE b

\* a Python dict is a function on its keys
EmptyDict == <<>>
DictSet(d, k, v) == [x \in DOMAIN d \cup {k} |-> IF x = k THEN v ELSE d[x]]
DictDel(d, k) == [x \in DOMAIN d \ {k} |-> d[x]]

\* a value of the uniques and duplicates dicts: the list of the values
\* collected, replaced by its length at the end
PyList(l) == [t |-> "list", v |-> l]
PyInt(n) == [t |-> "int", v |-> n]
\* a dict of counts as it is returned
Counts(d) == [k \in DOMAIN d |-> d[k].v]

\* x in l, for a list l
InList(x, l) == \E i \in 1..Len(l) : l[i] = x

\* zip(header, row)
zip(h, row) == [i \in 1..Min(Len(h), Len(row)) |-> <<h[i], row[i]>>]

\* collect_skiprows listing only the rows shorter than rowlen
RECURSIVE collect_skiprows_short(_, _, _)
collect_skiprows_short(ds, rowlen, r) ==
    IF r > Len(ds) THEN <<>>
    ELSE (IF Len(ds[r]) < rowlen THEN <<r - 1>> ELSE <<>>)
         \o collect_skiprows_short(ds, rowlen, r + 1)

\* collect_skiprows numbering the rows from 1
RECURSIVE collect_skiprows_from1(_, _, _)
collect_skiprows_from1(ds, rowlen, r) ==
    IF r > Len(ds) THEN <<>>
    ELSE (IF Len(ds[r]) # rowlen THEN <<r>> ELSE <<>>)
         \o collect_skiprows_from1(ds, rowlen, r + 1)

\* a. the numbers of the rows of dataset from row r on whose length is not
\* rowlen; row numbers start at 0
RECURSIVE collect_skiprows(_, _, _)
collect_skiprows(ds, rowlen, r) ==
    IF r > Len(ds) THEN <<>>
    ELSE (IF Len(ds[r]) # rowlen THEN <<r - 1>> ELSE <<>>)
         \o collect_skiprows(ds, rowlen, r + 1)

\* visits without the test that skips the rows of skiprows
RECURSIVE visits_noskip(_, _, _, _)
visits_noskip(ds, h, skiprows, r) ==
    IF r > Len(ds) THEN <<>>
    ELSE zip(h, ds[r]) \o visits_noskip(ds, h, skiprows, r + 1)

\* the (colname, colval) pairs the loops b and c visit, in order, from row r on
RECURSIVE visits(_, _, _, _)
visits(ds, h, skiprows, r) ==
    IF r > Len(ds) THEN <<>>
    ELSE (IF InList(r - 1, skiprows) THEN <<>> ELSE zip(h, ds[r]))
         \o visits(ds, h, skiprows, r + 1)

\* every column name of h mapped to v
DictOfHeader(h, v) == [c \in Range(h) |-> v]

\* the state of a loop: the exception that ended it and its dicts
Loop(exc, columns, uniques, duplicates) ==
    [exc |-> exc, columns |-> columns, uniques |-> uniques,
     duplicates |-> duplicates]

RECURSIVE collect_types(_, _, _)

\* count_type storing 1 for a type already counted
count_type_reset(columns, vs, i, coltype) ==
    IF coltype \notin TypeTags THEN Loop(coltype, columns, EmptyDict, EmptyDict)
    ELSE collect_types(
            DictSet(columns, vs[i][1], DictSet(columns[vs[i][1]], coltype, 1)),
            vs, i + 1)

\* count_type storing 2 for a type not yet counted
count_type_from2(columns, vs, i, coltype) ==
    IF coltype \notin TypeTags THEN Loop(coltype, columns, EmptyDict, EmptyDict)
    ELSE collect_types(
            DictSet(columns, vs[i][1],
                DictSet(columns[vs[i][1]], coltype,
                    IF coltype \in DOMAIN columns[vs[i][1]]
                    THEN columns[vs[i][1]][coltype] + 1
                    ELSE 2)),
            vs, i + 1)

\* visit i of loop b, coltype being the type of its value or the exception
\* determine_column_type raised
count_type(columns, vs, i, coltype) ==
    IF coltype \notin TypeTags THEN Loop(coltype, columns, EmptyDict, EmptyDict)
    ELSE collect_types(
            DictSet(columns, vs[i][1],
                DictSet(columns[vs[i][1]], coltype,
                    IF coltype \in DOMAIN columns[vs[i][1]]
                    THEN columns[vs[i][1]][coltype] + 1
                    ELSE 1)),
            vs, i + 1)

\* b. the column type counts after the visits from i on
collect_types(columns, vs, i) ==
    IF i > Len(vs) THEN Loop("none", columns, EmptyDict, EmptyDict)
    ELSE count_type(columns, vs, i, determine_column_type(vs[i][2]))

RECURSIVE collect_uniques(_, _, _, _, _)

\* add_unique without the test of the value's type
add_unique_alltags(columns, uniques, duplicates, vs, i, coltype) ==
    IF coltype \notin TypeTags THEN Loop(coltype, columns, uniques, duplicates)
    ELSE IF ~InList(vs[i][2], uniques[vs[i][1]].v)
    THEN collect_uniques(columns,
            DictSet(uniques, vs[i][1],
                    PyList(Append(uniques[vs[i][1]].v, vs[i][2]))),
            duplicates, vs, i + 1)
    ELSE collect_uniques(columns, uniques,
            DictSet(duplicates, vs[i][1],
                    PyList(Append(duplicates[vs[i][1]].v, vs[i][2]))),
            vs, i + 1)

\* visit i of loop c in a column that has texts, coltype being the type of
\* its value
add_unique(columns, uniques, duplicates, vs, i, coltype) ==
    IF coltype \notin TypeTags THEN Loop(coltype, columns, uniques, duplicates)
    ELSE IF coltype # "T"
    THEN collect_uniques(columns, uniques, duplicates, vs, i + 1)
    ELSE IF ~InList(vs[i][2], uniques[vs[i][1]].v)
    THEN collect_uniques(columns,
            DictSet(uniques, vs[i][1],
                    PyList(Append(uniques[vs[i][1]].v, vs[i][2]))),
            duplicates, vs, i + 1)
    ELSE collect_uniques(columns, uniques,
            DictSet(duplicates, vs[i][1],
                    PyList(Append(duplicates[vs[i][1]].v, vs[i][2]))),
            vs, i + 1)

\* c. the unique and duplicate text values after the visits from i on
\* (text scope: src/dqstutil.py)
collect_uniques(columns, uniques, duplicates, vs, i) ==
    IF i > Len(vs) THEN Loop("none", columns, uniques, duplicates)
    ELSE IF "T" \notin DOMAIN columns[vs[i][1]]
    THEN collect_uniques(columns, uniques, duplicates, vs, i + 1)
    ELSE add_unique(columns, uniques, duplicates, vs, i,
                    determine_column_type(vs[i][2]))

\* count_uniques keeping the entries whose unique count is zero
RECURSIVE count_uniques_keepzero(_, _, _, _, _)
count_uniques_keepzero(columns, uniques, duplicates, h, i) ==
    IF i > Len(h) THEN Loop("none", columns, uniques, duplicates)
    ELSE IF h[i] \notin DOMAIN uniques
    THEN Loop("KeyError", columns, uniques, duplicates)
    ELSE IF uniques[h[i]].t # "list"
    THEN Loop("TypeError", columns, uniques, duplicates)
    ELSE count_uniques_keepzero(columns,
            DictSet(uniques, h[i], PyInt(Len(uniques[h[i]].v))),
            DictSet(duplicates, h[i], PyInt(Len(duplicates[h[i]].v))),
            h, i + 1)

\* the lists of uniques and duplicates replaced by their lengths, for the
\* header's names from position i on; a name met a second time finds its
\* entry deleted (KeyError) or already a count (TypeError)
RECURSIVE count_uniques(_, _, _, _, _)
count_uniques(columns, uniques, duplicates, h, i) ==
    IF i > Len(h) THEN Loop("none", columns, uniques, duplicates)
    ELSE IF h[i] \notin DOMAIN uniques
    THEN Loop("KeyError", columns, uniques, duplicates)
    ELSE IF uniques[h[i]].t # "list"
    THEN Loop("TypeError", columns, uniques, duplicates)
    ELSE IF Len(uniques[h[i]].v) < 1
    THEN count_uniques(columns, DictDel(uniques, h[i]),
                       DictDel(duplicates, h[i]), h, i + 1)
    ELSE count_uniques(columns,
            DictSet(uniques, h[i], PyInt(Len(uniques[h[i]].v))),
            DictSet(duplicates, h[i], PyInt(Len(duplicates[h[i]].v))),
            h, i + 1)

\* what inspect_dataset has collected when it ends: the exception that ended
\* it, or the four values it returns or prints
Metadata(skiprows, d) ==
    IF d.exc # "none"
    THEN [exc |-> d.exc, skiprows |-> <<>>, columns |-> EmptyDict,
          uniques |-> EmptyDict, duplicates |-> EmptyDict]
    ELSE [exc |-> "none", skiprows |-> skiprows, columns |-> d.columns,
          uniques |-> Counts(d.uniques), duplicates |-> Counts(d.duplicates)]

\* inspect_dataset after loop c
inspect_counts(h, skiprows, c) ==
    IF c.exc # "none" THEN Metadata(skiprows, c)
    ELSE Metadata(skiprows, count_uniques(c.columns, c.uniques, c.duplicates, h, 1))

\* inspect_dataset after loop b
inspect_uniques(h, skiprows, vs, b) ==
    IF b.exc # "none" THEN Metadata(skiprows, b)
    ELSE inspect_counts(h, skiprows,
            collect_uniques(b.columns, DictOfHeader(h, PyList(<<>>)),
                            DictOfHeader(h, PyList(<<>>)), vs, 1))

\* inspect_dataset after loop a
inspect_types(ds, h, skiprows, vs) ==
    inspect_uniques(h, skiprows, vs,
                    collect_types(DictOfHeader(h, EmptyDict), vs, 1))

inspect_rows(ds, h, skiprows) ==
    inspect_types(ds, h, skiprows, visits(ds, h, skiprows, 1))

\* the metadata inspect_dataset of src/dqstutil.py collects, or the
\* exception that ends it
inspect_dataset(ds, h) == inspect_rows(ds, h, collect_skiprows(ds, Len(h), 1))

\* the order in which the four buckets of a column are counted
coltypes == <<"N", "PD", "PN", "T">>

RECURSIVE collect_uniques_pkg(_, _, _, _)

\* visit i of loop c, coltype being the type of its value
add_unique_pkg(columns, uniques, vs, i, coltype) ==
    IF coltype \notin TypeTags THEN Loop(coltype, columns, uniques, EmptyDict)
    ELSE IF ~InList(vs[i][2], uniques[vs[i][1]][coltype].v)
    THEN collect_uniques_pkg(columns,
            DictSet(uniques, vs[i][1],
                DictSet(uniques[vs[i][1]], coltype,
                    PyList(Append(uniques[vs[i][1]][coltype].v, vs[i][2])))),
            vs, i + 1)
    ELSE collect_uniques_pkg(columns, uniques, vs, i + 1)

\* c. the unique values of every column type after the visits from i on
\* (four buckets: src/dqstutil/dqstutil.py)
collect_uniques_pkg(columns, uniques, vs, i) ==
    IF i > Len(vs) THEN Loop("none", columns, uniques, EmptyDict)
    ELSE add_unique_pkg(columns, uniques, vs, i, determine_column_type(vs[i][2]))

\* the buckets of one column replaced by their lengths, from bucket k on; a
\* bucket met a second time is deleted (KeyError) or a count (TypeError)
RECURSIVE count_buckets(_, _)
count_buckets(unique, k) ==
    IF k > Len(coltypes) THEN [exc |-> "none", unique |-> unique]
    ELSE IF coltypes[k] \notin DOMAIN unique
    THEN [exc |-> "KeyError", unique |-> unique]
    ELSE IF unique[coltypes[k]].t # "list"
    THEN [exc |-> "TypeError", unique |-> unique]
    ELSE IF Len(unique[coltypes[k]].v) < 1
    THEN count_buckets(DictDel(unique, coltypes[k]), k + 1)
    ELSE count_buckets(
            DictSet(unique, coltypes[k], PyInt(Len(unique[coltypes[k]].v))),
            k + 1)

RECURSIVE count_uniques_pkg(_, _, _, _)

\* the buckets of the name at position i of the header have been counted
set_counts_pkg(columns, uniques, h, i, counted) ==
    IF counted.exc # "none" THEN Loop(counted.exc, columns, uniques, EmptyDict)
    ELSE count_uniques_pkg(columns, DictSet(uniques, h[i], counted.unique),
                           h, i + 1)

\* the buckets of the header's names from position i on replaced by their
\* lengths
count_uniques_pkg(columns, uniques, h, i) ==
    IF i > Len(h) THEN Loop("none", columns, uniques, EmptyDict)
    ELSE set_counts_pkg(columns, uniques, h, i, count_buckets(uniques[h[i]], 1))

FourBuckets == [t \in TypeTags |-> PyList(<<>>)]

\* what inspect_dataset has collected when it ends: the exception that ended
\* it, or the three values it returns or prints
Metadata_pkg(skiprows, d) ==
    IF d.exc # "none"
    THEN [exc |-> d.exc, skiprows |-> <<>>, columns |-> EmptyDict,
          uniques |-> EmptyDict]
    ELSE [exc |-> "none", skiprows |-> skiprows, columns |-> d.columns,
          uniques |-> [colname \in DOMAIN d.uniques |-> Counts(d.uniques[colname])]]

\* inspect_dataset after loop c
inspect_counts_pkg(h, skiprows, c) ==
    IF c.exc # "none" THEN Metadata_pkg(skiprows, c)
    ELSE Metadata_pkg(skiprows, count_uniques_pkg(c.columns, c.uniques, h, 1))

\* inspect_dataset after loop b
inspect_uniques_pkg(h, skiprows, vs, b) ==
    IF b.exc # "none" THEN Metadata_pkg(skiprows, b)
    ELSE inspect_counts_pkg(h, skiprows,
            collect_uniques_pkg(b.columns, DictOfHeader(h, FourBuckets), vs, 1))

\* inspect_dataset after loop a
inspect_types_pkg(ds, h, skiprows, vs) ==
    inspect_uniques_pkg(h, skiprows, vs,
                        collect_types(DictOfHeader(h, EmptyDict), vs, 1))

inspect_rows_pkg(ds, h, skiprows) ==
    inspect_types_pkg(ds, h, skiprows, visits(ds, h, skiprows, 1))

\* the metadata inspect_dataset of src/dqstutil/dqstutil.py collects, or the
\* exception that ends it
inspect_dataset_pkg(ds, h) ==
    inspect_rows_pkg(ds, h, collect_skiprows(ds, Len(h), 1))

(***************************************************************************)
(* Calls of the dataset scanner                                            *)
(***************************************************************************)
\* inspect_dataset popping the first row off the caller's dataset
FinishInspect_pops(fn, report, meta) ==
    /\ pc = "start"
    /\ pc' = "done"
    /\ called' = fn
    /\ generate_report' = report
    /\ IF meta.exc # "none"
       THEN ret' = Raised(meta.exc) /\ printed' = <<>>
       ELSE IF report
       THEN ret' = Returned("None") /\ printed' = <<meta>>
       ELSE ret' = Returned(meta) /\ printed' = <<>>
    /\ dataset' = IF dataset = <<>> THEN dataset ELSE Tail(dataset)
    /\ UNCHANGED <<value, header, extract_vars, edit_vars>>

\* inspect_dataset ends: it raises, or prints the metadata and returns
\* None, or returns the metadata; it assigns to no element of dataset, of a
\* row or of header, and to no name outside its own frame
FinishInspect(fn, report, meta) ==
    /\ pc = "start"
    /\ pc' = "done"
    /\ called' = fn
    /\ generate_report' = report
    /\ IF meta.exc # "none"
       THEN ret' = Raised(meta.exc) /\ printed' = <<>>
       ELSE IF report
       THEN ret' = Returned("None") /\ printed' = <<meta>>
       ELSE ret' = Returned(meta) /\ printed' = <<>>
    /\ UNCHANGED <<value, dataset, header, extract_vars, edit_vars>>

Call_inspect_dataset ==
    \E report \in BOOLEAN :
        FinishInspect("inspect_dataset", report, inspect_dataset(dataset, header))

Call_inspect_dataset_pkg ==
    \E report \in BOOLEAN :
        FinishInspect("inspect_dataset_pkg", report,
                      inspect_dataset_pkg(dataset, header))

\* the caller calls the same function a second time, with the same dataset
\* and header objects and the same generate_report
AgainInspect(fn, meta) ==
    /\ pc = "done"
    /\ called = fn
    /\ pc' = "again"
    /\ IF meta.exc # "none"
       THEN ret' = Raised(meta.exc) /\ printed' = <<>>
       ELSE IF generate_report
       THEN ret' = Returned("None") /\ printed' = <<meta>>
       ELSE ret' = Returned(meta) /\ printed' = <<>>
    /\ UNCHANGED <<called, value, dataset, header, generate_report, extract_vars, edit_vars>>

Call_inspect_dataset_again ==
    \/ AgainInspect("inspect_dataset", inspect_dataset(dataset, header))
    \/ AgainInspect("inspect_dataset_pkg", inspect_dataset_pkg(dataset, header))

InitInspect ==
    /\ pc = "start"
    /\ called = "none"
    /\ value = NonStr("NoneType")
    /\ ret = NoRet
    /\ dataset \in Datasets
    /\ header \in Headers
    /\ generate_report = FALSE
    /\ printed = <<>>
    /\ NoExtract
    /\ NoEdit

NextInspect ==
    \/ Call_inspect_dataset
    \/ Call_inspect_dataset_pkg
    \/ Call_inspect_dataset_again

SpecInspect == InitInspect /\ [][NextInspect]_vars

(***************************************************************************)
(* The dataset of test_return_tuple                                        *)
(***************************************************************************)
test_header == <<"a", "b", "c">>

test_dataset ==
    << <<Str(<<"a", "1">>), Str(<<"b", "1">>), Str(<<"c", "1">>)>>,
       <<Str(<<"a", "2">>), Str(<<"c", "2">>)>>,
       <<Str(<<"a", "3">>), Str(<<"b", "3">>), Str(<<"c", "3">>)>>,
       <<Str(<<"a", "4">>), Str(<<"b", "i", "b">>), Str(<<"3">>)>>,
       <<Str(<<"a", "y">>), Str(<<"b", "i", "b">>), Str(<<"x">>)>>,
       <<Str(<<"a", "y">>), Str(<<"b", "i", "b">>), Str(<<"x">>)>> >>

\* the rows of ds whose positions are in S, in their order
RECURSIVE RowsAt(_, _, _)
RowsAt(ds, S, i) ==
    IF i > Len(ds) THEN <<>>
    ELSE (IF i \in S THEN <<ds[i]>> ELSE <<>>) \o RowsAt(ds, S, i + 1)

\* the test's dataset and the datasets left when some of its rows are taken
\* out, under the test's header or a prefix of it
InitExample ==
    /\ pc = "start"
    /\ called = "none"
    /\ value = NonStr("NoneType")
    /\ ret = NoRet
    /\ dataset \in {RowsAt(test_dataset, S, 1) : S \in SUBSET (1..Len(test_dataset))}
    /\ header \in {SubSeq(test_header, 1, k) : k \in 0..Len(test_header)}
    /\ generate_report = FALSE
    /\ printed = <<>>
    /\ NoExtract
    /\ NoEdit

SpecExample == InitExample /\ [][NextInspect]_vars

\* the metadata of the call that has ended, returned or printed
Meta == IF generate_report THEN printed[1] ELSE ret.val
\* a call of fn has returned
Done(fn) == pc = "done" /\ called = fn /\ ret.exc = "none"
InspectFns == {"inspect_dataset", "inspect_dataset_pkg"}
DoneInspect == pc = "done" /\ called \in InspectFns /\ ret.exc = "none"

(***************************************************************************)
(* Properties of the cell classifier (SpecClassify)                        *)
(***************************************************************************)
\* the number of positions of s whose character is in chars
CountOf(s, chars) == Cardinality({i \in 1..Len(s) : s[i] \in chars})

MonthLetters ==
    {<<"j", "a", "n">>, <<"f", "e", "b">>, <<"m", "a", "r">>, <<"a", "p", "r">>,
     <<"m", "a", "y">>, <<"j", "u", "n">>, <<"j", "u", "l">>, <<"a", "u", "g">>,
     <<"s", "e", "p">>, <<"o", "c", "t">>, <<"n", "o", "v">>, <<"d", "e", "c">>}

\* s, its upper-case letters read as lower-case, has the three letters of a
\* month prefix in a row
HasMonthPrefix(s) ==
    \E m \in MonthLetters : \E i \in 1..(Len(s) - 2) :
        \A k \in 1..3 : char_lower(s[i + k - 1]) = m[k]

DateLike(s) == HasMonthPrefix(s) \/ CountOf(s, {"/", "-"}) = 2

\* C1: determine_column_type is total: for every value, a str, a number or
\* any other value (a bool, None, a list), it returns one of the four tags
\* and never raises.
C1_ClassifyTotal ==
    (pc = "done" /\ called = "determine_column_type")
        => (ret.exc = "none" /\ ret.val \in TypeTags)

\* C2: the first of the tests N, PN, PD that holds decides the tag, and T is
\* the tag when none holds; a numeric str is N also when it is date-like.
C2_PriorityOrder ==
    Done("determine_column_type") =>
        /\ is_numeric(value) => ret.val = "N"
        /\ (value.kind = "str" /\ ~is_numeric(value)) =>
              /\ is_possible_numeric(value) => ret.val = "PN"
              /\ (~is_possible_numeric(value) /\ is_possible_date(value))
                    => ret.val = "PD"
              /\ (~is_possible_numeric(value) /\ ~is_possible_date(value))
                    => ret.val = "T"

\* a numeric str with exactly two date separators has been classified
C2_Witness ==
    /\ Done("determine_column_type")
    /\ value.kind = "str"
    /\ to_complex(value)
    /\ CountOf(value.str, {"/", "-"}) = 2
    /\ ret.val = "N"

\* C3: is_possible_date(s) is true exactly when lower-cased s contains a
\* month prefix or exactly two of its characters are '/' or '-'.
C3_PossibleDate ==
    (Done("is_possible_date") /\ value.kind = "str") =>
        (ret.val = "True" <=> DateLike(value.str))

\* a str of three or more separators and no month prefix has been rejected
C3_Witness ==
    /\ Done("is_possible_date")
    /\ value.kind = "str"
    /\ CountOf(value.str, {"/", "-"}) >= 3
    /\ ~HasMonthPrefix(value.str)
    /\ ret.val = "False"

\* C4: is_possible_numeric(s) is true exactly when s has a digit, is not
\* date-like, has at most one '.' and has at most one '$'.
C4_PossibleNumeric ==
    (Done("is_possible_numeric") /\ value.kind = "str") =>
        (ret.val = "True" <=>
            /\ CountOf(value.str, {"1"}) >= 1
            /\ ~DateLike(value.str)
            /\ CountOf(value.str, {"."}) <= 1
            /\ CountOf(value.str, {"$"}) <= 1)

\* a str with a digit and two decimal points, not date-like, has been rejected
C4_Witness ==
    /\ Done("is_possible_numeric")
    /\ value.kind = "str"
    /\ CountOf(value.str, {"1"}) >= 1
    /\ CountOf(value.str, {"."}) >= 2
    /\ CountOf(value.str, {"$"}) <= 1
    /\ ~DateLike(value.str)
    /\ ret.val = "False"

(***************************************************************************)
(* Properties of the dataset scanner (SpecInspect)                         *)
(***************************************************************************)
\* row r of the dataset (numbered from 1) has the header's length
Conformant(r) == Len(dataset[r]) = Len(header)

\* the cells of column c in the length-conformant rows: <<row, position>>
CellsOf(c) ==
    {rp \in (1..Len(dataset)) \X (1..Len(header)) :
        Conformant(rp[1]) /\ header[rp[2]] = c}

\* those of them that classify as t
CellsTagged(c, t) ==
    {rp \in CellsOf(c) : determine_column_type(dataset[rp[1]][rp[2]]) = t}

\* the length-conformant rows whose cell at the position of c classifies as t
RowsTagged(c, t) == {rp[1] : rp \in CellsTagged(c, t)}

\* the distinct values of the cells of c that classify as t
ValuesTagged(c, t) == {dataset[rp[1]][rp[2]] : rp \in CellsTagged(c, t)}

\* the dataset without its rows of another length than the header's
RECURSIVE ConformantRows(_)
ConformantRows(r) ==
    IF r > Len(dataset) THEN <<>>
    ELSE (IF Conformant(r) THEN <<dataset[r]>> ELSE <<>>) \o ConformantRows(r + 1)

\* C5: invalid_rows holds exactly the zero-based numbers of the rows whose
\* length differs from the header's, each once and in ascending order, so
\* it is no longer than the dataset and every number is in [0, len(dataset)).
C5_InvalidRows ==
    DoneInspect =>
        LET sk == Meta.skiprows
        IN  /\ \A i, j \in 1..Len(sk) : i < j => sk[i] < sk[j]
            /\ Range(sk) = {r \in 0..(Len(dataset) - 1) :
                                Len(dataset[r + 1]) # Len(header)}
            /\ Len(sk) <= Len(dataset)
            /\ \A i \in 1..Len(sk) : sk[i] >= 0 /\ sk[i] < Len(dataset)

\* the second row alone is invalid, and is listed under its own number
C5_Witness ==
    /\ DoneInspect
    /\ Len(dataset) = 2
    /\ Conformant(1)
    /\ Len(dataset[2]) > Len(header)
    /\ Meta.skiprows = <<1>>

\* C6: the histogram has one entry per header column; histogram[c][t] is
\* the number of length-conformant rows whose cell at the position of c
\* classifies as t; a tag that never occurred in c has no key, and a column
\* with no conformant row maps to an empty mapping.
C6_Histogram ==
    DoneInspect =>
        LET hist == Meta.columns
        IN  /\ DOMAIN hist = Range(header)
            /\ Cardinality(DOMAIN hist) = Len(header)
            /\ \A c \in DOMAIN hist : \A t \in TypeTags :
                  IF RowsTagged(c, t) = {}
                  THEN t \notin DOMAIN hist[c]
                  ELSE /\ t \in DOMAIN hist[c]
                       /\ hist[c][t] = Cardinality(RowsTagged(c, t))
            /\ \A c \in DOMAIN hist : DOMAIN hist[c] \subseteq TypeTags
            /\ \A c \in DOMAIN hist :
                  (\A r \in 1..Len(dataset) : ~Conformant(r)) => hist[c] = EmptyDict

\* a column of two columns has two rows of one tag, the other column two tags
C6_Witness ==
    /\ DoneInspect
    /\ Len(header) = 2
    /\ \E c \in DOMAIN Meta.columns : \E t \in DOMAIN Meta.columns[c] :
          Meta.columns[c][t] = 2
    /\ \E c \in DOMAIN Meta.columns : Cardinality(DOMAIN Meta.columns[c]) = 2

\* the outcome of the call that has ended and the outcome of the same call
\* on the dataset without its invalid rows
C7_Outcomes ==
    LET clean == ConformantRows(1)
    IN  IF called = "inspect_dataset"
        THEN <<inspect_dataset(clean, header),
               IF ret.exc # "none" THEN [exc |-> ret.exc]
               ELSE [exc |-> "none", columns |-> Meta.columns,
                     uniques |-> Meta.uniques, duplicates |-> Meta.duplicates]>>
        ELSE <<inspect_dataset_pkg(clean, header),
               IF ret.exc # "none" THEN [exc |-> ret.exc]
               ELSE [exc |-> "none", columns |-> Meta.columns,
                     uniques |-> Meta.uniques, duplicates |-> EmptyDict]>>

\* C7: the histogram, uniqueness and duplicates computed for a dataset are
\* those computed for the dataset with its invalid rows deleted, whatever
\* the invalid rows hold (and the one call raises when the other does).
C7_InvalidRowsIgnored ==
    (pc = "done" /\ called \in InspectFns) =>
        LET other == C7_Outcomes[1]
            this == C7_Outcomes[2]
        IN  /\ this.exc = other.exc
            /\ this.exc = "none" =>
                  /\ this.columns = other.columns
                  /\ this.uniques = other.uniques
                  /\ called = "inspect_dataset"
                        => this.duplicates = other.duplicates

\* an invalid row holding a text and None comes before a conformant row
\* whose text is counted
C7_Witness ==
    /\ DoneInspect
    /\ Len(dataset) = 2
    /\ ~Conformant(1)
    /\ Str(<<"a">>) \in Range(dataset[1])
    /\ NonStr("NoneType") \in Range(dataset[1])
    /\ Conformant(2)
    /\ \E c \in DOMAIN Meta.uniques : TRUE

\* C8: in the text-scope scanner uniqueness[c] is the number of distinct
\* T-tagged values of column c and duplicates[c] the number of T-tagged
\* cells of c that repeat a value seen before; cells of another tag count
\* toward neither.
C8_UniquesAndDuplicates ==
    Done("inspect_dataset") =>
        \A c \in Range(header) :
            IF c \in DOMAIN Meta.uniques
            THEN /\ Meta.uniques[c] = Cardinality(ValuesTagged(c, "T"))
                 /\ Meta.duplicates[c] =
                        Cardinality(CellsTagged(c, "T"))
                            - Cardinality(ValuesTagged(c, "T"))
            ELSE CellsTagged(c, "T") = {}

\* one column holds a text twice, another a text and a cell of another tag
C8_Witness ==
    /\ Done("inspect_dataset")
    /\ \E c \in DOMAIN Meta.uniques :
          Meta.uniques[c] = 1 /\ Meta.duplicates[c] = 1
    /\ \E c \in DOMAIN Meta.uniques :
          /\ Meta.uniques[c] = 1
          /\ Meta.duplicates[c] = 0
          /\ Cardinality(CellsOf(c)) = 2

\* C9: histogram, uniqueness and duplicates have only header names as keys;
\* a column (four buckets: a column's tag) with no qualifying value has no
\* entry in uniqueness; in the text scope uniqueness and duplicates have the
\* same keys.
C9_Keys ==
    DoneInspect =>
        /\ DOMAIN Meta.columns \subseteq Range(header)
        /\ DOMAIN Meta.uniques \subseteq Range(header)
        /\ called = "inspect_dataset" =>
              /\ DOMAIN Meta.duplicates = DOMAIN Meta.uniques
              /\ \A c \in DOMAIN Meta.uniques : Meta.uniques[c] >= 1
              /\ \A c \in Range(header) :
                    CellsTagged(c, "T") = {} => c \notin DOMAIN Meta.uniques
        /\ called = "inspect_dataset_pkg" =>
              \A c \in DOMAIN Meta.uniques :
                  /\ DOMAIN Meta.uniques[c] \subseteq TypeTags
                  /\ \A t \in DOMAIN Meta.uniques[c] : Meta.uniques[c][t] >= 1
                  /\ \A t \in TypeTags :
                        CellsTagged(c, t) = {} => t \notin DOMAIN Meta.uniques[c]

\* of two columns with cells, one has a text and the other none
C9_Witness ==
    /\ Done("inspect_dataset")
    /\ DOMAIN Meta.uniques # {}
    /\ \E c \in Range(header) :
          /\ c \notin DOMAIN Meta.uniques
          /\ c \notin DOMAIN Meta.duplicates
          /\ CellsOf(c) # {}

\* C10 as claimed: with an empty header and a non-empty dataset,
\* invalid_rows holds every row number, and the histogram and uniqueness
\* are empty.
C10_EmptyHeaderAllRows ==
    (DoneInspect /\ header = <<>> /\ dataset # <<>>) =>
        /\ Meta.skiprows = [i \in 1..Len(dataset) |-> i - 1]
        /\ Meta.columns = EmptyDict
        /\ Meta.uniques = EmptyDict

\* C10 amended: with an empty header and a non-empty dataset, invalid_rows
\* holds the number of every row that is not empty (an empty row has the
\* header's length), in ascending order, and the histogram and uniqueness
\* are empty.
C10_EmptyHeaderNonEmptyRows ==
    (DoneInspect /\ header = <<>> /\ dataset # <<>>) =>
        /\ \A i, j \in 1..Len(Meta.skiprows) :
              i < j => Meta.skiprows[i] < Meta.skiprows[j]
        /\ Range(Meta.skiprows) =
              {r \in 0..(Len(dataset) - 1) : dataset[r + 1] # <<>>}
        /\ Meta.columns = EmptyDict
        /\ Meta.uniques = EmptyDict

\* under an empty header an empty row is passed and a later row is listed
C10_Witness ==
    /\ DoneInspect
    /\ header = <<>>
    /\ Len(dataset) = 2
    /\ dataset[1] = <<>>
    /\ dataset[2] # <<>>
    /\ Meta.skiprows = <<1>>

\* C11 as claimed: inspect_dataset never raises: for every dataset and header
\* (ragged rows, an empty dataset, an empty header, a header that repeats a
\* name, cells that are not strs) it returns a result.
C11_NeverRaises ==
    (pc = "done" /\ called \in InspectFns) => ret.exc = "none"

C13_ReturnTuple ==
    (/\ pc = "done" /\ called = "inspect_dataset" /\ ~generate_report
     /\ header = test_header /\ dataset = test_dataset) =>
        ret = Returned([exc |-> "none",
                        skiprows |-> <<1>>,
                        columns |-> [a |-> [PN |-> 3, T |-> 2],
                                     b |-> [PN |-> 2, T |-> 3],
                                     c |-> [PN |-> 2, N |-> 1, T |-> 2]],
                        uniques |-> [a |-> 1, b |-> 1, c |-> 1],
                        duplicates |-> [a |-> 1, b |-> 2, c |-> 1]])

\* the call of the test has returned
C13_Witness ==
    /\ Done("inspect_dataset")
    /\ ~generate_report
    /\ header = test_header
    /\ dataset = test_dataset
    /\ ret.val.skiprows = <<1>>

(***************************************************************************)
(* The unique-value extractor                                              *)
(*                                                                         *)
(* Its values are Python objects: t is the type, and n the int, s the      *)
(* characters of the str or l the elements of the list.                    *)
(***************************************************************************)
\* most elements in the list values
MaxVals == 3

IntObj(n) == [t |-> "int", n |-> n]
StrObj(s) == [t |-> "str", s |-> s]
ListObj(l) == [t |-> "list", l |-> l]
\* the dict {'a': 4}, a value that is not a list
DictObj == [t |-> "dict"]
NoneObj == [t |-> "NoneType"]

\* the scalars values is built from: two ints that sort differently as
\* numbers and as strs, two strs, one of them the str of an int
Scalars == {IntObj(2), IntObj(11), StrObj(<<"a">>), StrObj(<<"2">>)}
\* the scalars sublists are built from
SubScalars == {IntObj(2), IntObj(11), StrObj(<<"2">>)}
\* the lengths of the sublists: empty, one element, more than one
SubLens == {0, 1, 2}
\* the sublists: those of scalars, and two that hold a list
Sublists ==
    {ListObj(l) : l \in UNION {SeqsOfLen(SubScalars, n) : n \in SubLens}}
    \cup {ListObj(<<ListObj(<<IntObj(2)>>)>>),
          ListObj(<<IntObj(2), ListObj(<<IntObj(2)>>)>>)}

\* the arguments values: the lists of scalars and sublists, and a dict
ValuesArgs ==
    {ListObj(l) : l \in SeqsUpTo(Scalars \cup Sublists, MaxVals)} \cup {DictObj}
Seps == {<<"|">>, <<"-">>}

\* type(x), and isinstance(x, t): no type of the model is a subclass of
\* another
type(x) == x.t
isinstance(x, t) == x.t = t

\* ord(c), for the characters of the extractor's strs
ord(c) ==
    CASE c = "-" -> 45
      [] c \in {"0", "1", "2", "3", "4", "5", "6", "7", "8", "9"} ->
            48 + (CHOOSE d \in 0..9 : <<"0", "1", "2", "3", "4", "5", "6", "7", "8", "9">>[d + 1] = c)
      [] c = "a" -> 97
      [] c = "|" -> 124

\* s < t for two strs: the first character that differs decides, a proper
\* prefix is smaller
RECURSIVE str_lt(_, _)
str_lt(s, t) ==
    IF t = <<>> THEN FALSE
    ELSE IF s = <<>> THEN TRUE
    ELSE IF Head(s) # Head(t) THEN ord(Head(s)) < ord(Head(t))
    ELSE str_lt(Tail(s), Tail(t))

\* x < y for two ints or two strs
lt(x, y) == IF isinstance(x, "str") THEN str_lt(x.s, y.s) ELSE x.n < y.n

\* the decimal digits of n >= 0
RECURSIVE digits(_)
digits(n) ==
    IF n < 10 THEN <<At(<<"0", "1", "2", "3", "4", "5", "6", "7", "8", "9">>, n + 1)>>
    ELSE digits(n \div 10) \o digits(n % 10)

\* str(x) of an int
str(x) == IF x.n < 0 THEN <<"-">> \o digits(-x.n) ELSE digits(x.n)

\* l with x put before the first element greater than x
RECURSIVE insort(_, _)
insort(l, x) ==
    IF l = <<>> THEN <<x>>
    ELSE IF lt(x, Head(l)) THEN <<x>> \o l
    ELSE <<Head(l)>> \o insort(Tail(l), x)

RECURSIVE sort_from(_, _, _)
sort_from(l, i, acc) ==
    IF i > Len(l) THEN acc ELSE sort_from(l, i + 1, insort(acc, l[i]))

\* sorted(l): the elements in ascending order; an int and a str cannot be
\* compared
sorted(l) ==
    IF \E i, j \in 1..Len(l) : type(l[i]) # type(l[j]) THEN Raised("TypeError")
    ELSE Returned(ListObj(sort_from(l, 1, <<>>)))

\* sep.join(strs)
RECURSIVE join(_, _)
join(separator, strs) ==
    IF strs = <<>> THEN <<>>
    ELSE IF Len(strs) = 1 THEN strs[1]
    ELSE strs[1] \o separator \o join(separator, Tail(strs))

contains_no_list(val) == \A i \in 1..Len(val.l) : ~isinstance(val.l[i], "list")

is_homogenous(val, template) ==
    \A i \in 1..Len(val.l) : type(val.l[i]) = type(template)

\* to_str(value): a str as it is, an int through str()
to_str(val) ==
    [i \in 1..Len(val) |-> IF isinstance(val[i], "str") THEN val[i].s ELSE str(val[i])]

\* set([tuple(value) for value in values])
tuples(vals) == {vals[i].l : i \in 1..Len(vals)}

\* the orders in which a set can be iterated: Python fixes none, it follows
\* the hashes of the elements, which for strs change from run to run
SetOrders(S) == {o \in [1..Cardinality(S) -> S] : Range(o) = S}

\* the scalars of values, each kept where a later equal one is absent
RECURSIVE uniques_last(_, _)
uniques_last(vals, idx) ==
    IF idx > Len(vals) THEN <<>>
    ELSE (IF InList(vals[idx], SubSeq(vals, idx + 1, Len(vals)))
          THEN <<>> ELSE <<vals[idx]>>) \o uniques_last(vals, idx + 1)

\* [value for idx, value in enumerate(values) if value not in values[:idx]]
RECURSIVE uniques_scalars(_, _)
uniques_scalars(vals, idx) ==
    IF idx > Len(vals) THEN <<>>
    ELSE (IF InList(vals[idx], SubSeq(vals, 1, idx - 1))
          THEN <<>> ELSE <<vals[idx]>>) \o uniques_scalars(vals, idx + 1)

\* the sublists' elements joined without the separator
uniques_joined_nosep(order, separator) ==
    ListObj([k \in 1..Len(order) |-> StrObj(join(<<>>, to_str(order[k])))])

\* [sep.join(to_str(value)) for value in set(...)], the set iterated in order
uniques_joined(order, separator) ==
    ListObj([k \in 1..Len(order) |-> StrObj(join(separator, to_str(order[k])))])

\* [value[0] for value in set(...)], the set iterated in order
uniques_single(order) == ListObj([k \in 1..Len(order) |-> order[k][1]])

\* every sublist has the length of the first, holds no list and only
\* elements of the type of its own first element
sublists_ok(vals, value_len) ==
    \A i \in 1..Len(vals) :
        /\ Len(vals[i].l) = value_len
        /\ contains_no_list(vals[i])
        /\ is_homogenous(vals[i], vals[i].l[1])

\* the list uniques of extract_unique_values for a non-empty list values of
\* elements of one type, or None when it returns None before
uniques_of(vals, separator, order) ==
    IF type(vals[1]) = "list"
    THEN IF Len(vals[1].l) = 0 THEN NoneObj
         ELSE IF ~sublists_ok(vals, Len(vals[1].l)) THEN NoneObj
         ELSE IF Len(vals[1].l) > 1 THEN uniques_joined(order, separator)
         ELSE uniques_single(order)
    ELSE ListObj(uniques_scalars(vals, 1))

\* return sorted(uniques) if sort else uniques
return_uniques(uniques, sorting) ==
    IF uniques = NoneObj THEN Returned(NoneObj)
    ELSE IF sorting THEN sorted(uniques.l)
    ELSE Returned(uniques)

\* extract_unique_values(values, sort, sep), order being the order in which
\* the set of the sublists is iterated
extract_unique_values(vals, sorting, separator, order) ==
    IF ~isinstance(vals, "list") \/ Len(vals.l) < 1 THEN Returned(NoneObj)
    ELSE IF \E i \in 1..Len(vals.l) : ~isinstance(vals.l[i], type(vals.l[1]))
    THEN Returned(NoneObj)
    ELSE return_uniques(uniques_of(vals.l, separator, order), sorting)

\* the set the extractor iterates, empty when it builds none
tuples_of(vals) ==
    IF isinstance(vals, "list") /\ \A i \in 1..Len(vals.l) : isinstance(vals.l[i], "list")
    THEN tuples(vals.l) ELSE {}

(***************************************************************************)
(* Calls of the unique-value extractor                                     *)
(***************************************************************************)
Call_extract_unique_values ==
    /\ \E sorting \in BOOLEAN, separator \in Seps, order \in SetOrders(tuples_of(values)) :
          /\ Finish("extract_unique_values",
                    extract_unique_values(values, sorting, separator, order))
          /\ sort' = sorting
          /\ sep' = separator
    /\ UNCHANGED <<value, dataset, header, generate_report, printed, values,
                   edit_vars>>

InitExtract ==
    /\ pc = "start"
    /\ called = "none"
    /\ value = NonStr("NoneType")
    /\ ret = NoRet
    /\ dataset = <<>>
    /\ header = <<>>
    /\ generate_report = FALSE
    /\ printed = <<>>
    /\ values \in ValuesArgs
    /\ sort = FALSE
    /\ sep = <<"|">>
    /\ NoEdit

NextExtract == Call_extract_unique_values

SpecExtract == InitExtract /\ [][NextExtract]_vars

(***************************************************************************)
(* The column editors                                                      *)
(*                                                                         *)
(* The editors change list objects, so the lists are kept in a heap:       *)
(* heap.dataset, heap.header and heap.row map the identity of a dataset, a *)
(* header and a row to its elements.  The caller's dataset and header are  *)
(* 1 and the caller's rows 1..n; a new list takes the next identity.       *)
(* 0 stands for None.  A cell is a str.                                    *)
(***************************************************************************)
\* the header of the tests; a caller's header is this one or a prefix of it
EditNames == <<"a", "b", "c">>
\* a column name that is in no header
NewName == "d"

\* str(n) for a row number
Digit(n) == At(<<"0", "1", "2", "3", "4", "5", "6", "7", "8", "9">>, n + 1)

\* the caller's lists: n rows under the first k names, the cell of row r in
\* column c being c followed by r ('a1', 'b1', ...)
CallerHeap(n, k) ==
    [dataset |-> (1 :> [r \in 1..n |-> r]),
     header |-> (1 :> SubSeq(EditNames, 1, k)),
     row |-> [r \in 1..n |-> [c \in 1..k |-> <<EditNames[c], Digit(r)>>]]]

\* a column name as an argument: a str, or a list
Name(n) == [t |-> "str", name |-> n]
ColnameArgs == {Name(n) : n \in Range(EditNames) \cup {NewName, ""}} \cup {ListObj(<<>>)}

\* the data of a new column, for n rows: 'd1', 'd2', ...
ColData(n) == [r \in 1..n |-> <<NewName, Digit(r)>>]

\* the transforms: a dict, which is not callable; built-in callables of one
\* and two arguments, which have no __code__; functions of up to four
\* arguments
Transforms ==
    {[kind |-> "dict", argc |-> 0]}
    \cup {[kind |-> "builtin", argc |-> n] : n \in {1, 2}}
    \cup {[kind |-> "function", argc |-> n] : n \in 0..4}

\* the arguments colnames: the lists of names, and a dict
ColnamesArgs ==
    {ListObj(l) : l \in SeqsUpTo(Range(EditNames) \cup {NewName}, Len(EditNames))}
    \cup {DictObj}

\* l.index(x), for x in l
index(l, x) == (CHOOSE i \in 1..Len(l) : l[i] = x /\ \A k \in 1..(i - 1) : l[k] # x) - 1

\* del l[idx], for idx < len(l)
del(l, idx) == [i \in 1..(Len(l) - 1) |-> IF i <= idx THEN l[i] ELSE l[i + 1]]

\* the lists the editor works on: the caller's ds and hd when inplace, else
\* the copies [x[:] for x in dataset] and header[:], which are new objects
bind(h, ds, hd, inplace) ==
    IF inplace THEN [heap |-> h, ds |-> ds, hd |-> hd]
    ELSE [heap |->
            [dataset |-> Append(h.dataset,
                            [i \in 1..Len(h.dataset[ds]) |-> Len(h.row) + i]),
             header |-> Append(h.header, h.header[hd]),
             row |-> h.row \o [i \in 1..Len(h.dataset[ds]) |->
                                 h.row[h.dataset[ds][i]]]],
          ds |-> Len(h.dataset) + 1, hd |-> Len(h.header) + 1]

\* what a call leaves: the heap, and the pair returned or the exception
Result(h, r) == [heap |-> h, ret |-> r]
\* return None, None
NoneNone(h) == Result(h, Returned(<<0, 0>>))
\* return dataset, header
Pair(f) == Result(f.heap, Returned(<<f.ds, f.hd>>))

\* the rows of the dataset the editor works on, and its header
rows_of(f) == f.heap.dataset[f.ds]
header_of(f) == f.heap.header[f.hd]

\* header.append(colname); for row, newcol in zip(dataset, coldata):
\* row.append(newcol)
append_column(f, name, coldata) ==
    Pair([f EXCEPT
            !.heap.header[f.hd] = Append(@, name),
            !.heap.row = [r \in DOMAIN @ |->
                            IF InList(r, rows_of(f))
                            THEN Append(@[r], coldata[index(rows_of(f), r) + 1])
                            ELSE @[r]]])

add_column(h, ds, hd, colname, coldata, inplace) ==
    IF /\ isinstance(colname, "str") /\ colname.name # ""
       /\ ~InList(colname.name, h.header[hd])
       /\ Len(coldata) = Len(h.dataset[ds])
    THEN append_column(bind(h, ds, hd, inplace), colname.name, coldata)
    ELSE NoneNone(h)

\* for idx in idxs: del l[idx], from the j-th idx on: the list left, and
\* IndexError when an idx is not a position of the list
RECURSIVE del_each(_, _, _)
del_each(l, idxs, j) ==
    IF j > Len(idxs) THEN [l |-> l, exc |-> "none"]
    ELSE IF idxs[j] >= Len(l) THEN [l |-> l, exc |-> "IndexError"]
    ELSE del_each(del(l, idxs[j]), idxs, j + 1)

\* for row in dataset: for idx in idxs: del row[idx], from the i-th row on
RECURSIVE del_rows(_, _, _, _)
del_rows(row, ids, idxs, i) ==
    IF i > Len(ids) THEN [row |-> row, exc |-> "none"]
    ELSE IF del_each(row[ids[i]], idxs, 1).exc # "none"
    THEN [row |-> [row EXCEPT ![ids[i]] = del_each(@, idxs, 1).l],
          exc |-> del_each(row[ids[i]], idxs, 1).exc]
    ELSE del_rows([row EXCEPT ![ids[i]] = del_each(@, idxs, 1).l], ids, idxs, i + 1)

\* the header loop that follows the rows loop d
del_header(f, idxs, d) ==
    IF d.exc # "none" THEN Result([f.heap EXCEPT !.row = d.row], Raised(d.exc))
    ELSE IF del_each(header_of(f), idxs, 1).exc # "none"
    THEN Result([f.heap EXCEPT !.row = d.row,
                               !.header[f.hd] = del_each(@, idxs, 1).l],
                Raised(del_each(header_of(f), idxs, 1).exc))
    ELSE Result([f.heap EXCEPT !.row = d.row,
                               !.header[f.hd] = del_each(@, idxs, 1).l],
                Returned(<<f.ds, f.hd>>))

\* the cells at idxs are deleted from every row, then from the header
del_columns(f, idxs) == del_header(f, idxs, del_rows(f.heap.row, rows_of(f), idxs, 1))

remove_column(h, ds, hd, colname, inplace) ==
    IF isinstance(colname, "str") /\ InList(colname.name, h.header[hd])
    THEN del_columns(bind(h, ds, hd, inplace), <<index(h.header[hd], colname.name)>>)
    ELSE NoneNone(h)

\* for row, newcol in zip(dataset, coldata): row[idx] = newcol
set_column(f, idx, coldata) ==
    Pair([f EXCEPT
            !.heap.row = [r \in DOMAIN @ |->
                            IF InList(r, rows_of(f))
                            THEN [@[r] EXCEPT ![idx + 1] = coldata[index(rows_of(f), r) + 1]]
                            ELSE @[r]]])

modify_column(h, ds, hd, colname, coldata, inplace) ==
    IF /\ isinstance(colname, "str") /\ colname.name # ""
       /\ InList(colname.name, h.header[hd])
       /\ Len(coldata) = Len(h.dataset[ds])
    THEN set_column(bind(h, ds, hd, inplace), index(h.header[hd], colname.name), coldata)
    ELSE NoneNone(h)

char_upper(c) ==
    CASE c = "a" -> "A" [] c = "b" -> "B" [] c = "c" -> "C" [] c = "d" -> "D"
      [] OTHER -> c

\* the transform of the tests, lambda x: x.upper()
transform1(colval) == [i \in 1..Len(colval) |-> char_upper(colval[i])]

\* a transform of three arguments, lambda c, r, h: c + r[h.index('a')]
transform3(colval, row, hdr) == colval \o row[index(hdr, "a") + 1]

callable(transform) == transform.kind \in {"builtin", "function"}

\* for row in dataset: row[idx] = transform(colval) if targc == 1 else
\* transform(colval, row, header)
transform_rows(f, idx, targc) ==
    Pair([f EXCEPT
            !.heap.row = [r \in DOMAIN @ |->
                            IF InList(r, rows_of(f))
                            THEN [@[r] EXCEPT ![idx + 1] =
                                    IF targc = 1 THEN transform1(@)
                                    ELSE transform3(@, f.heap.row[r], header_of(f))]
                            ELSE @[r]]])

\* transform.__code__ is an attribute of functions only
transform_column(h, ds, hd, colname, transform, inplace) ==
    IF /\ isinstance(colname, "str") /\ colname.name # ""
       /\ InList(colname.name, h.header[hd])
       /\ callable(transform)
    THEN IF transform.kind # "function" THEN Result(h, Raised("AttributeError"))
         ELSE IF transform.argc \notin {1, 3} THEN NoneNone(h)
         ELSE transform_rows(bind(h, ds, hd, inplace), index(h.header[hd], colname.name),
                             transform.argc)
    ELSE NoneNone(h)

_is_valid_colnames(hdr, colnames) ==
    /\ Len(hdr) > 0
    /\ isinstance(colnames, "list")
    /\ Len(colnames.l) > 0
    /\ \A i \in 1..Len(colnames.l) : InList(colnames.l[i], hdr)

\* idxs.sort(key=int, reverse=True)
RECURSIVE sort_reverse(_)
sort_reverse(idxs) ==
    IF idxs = <<>> THEN <<>>
    ELSE LET m == CHOOSE x \in Range(idxs) : \A y \in Range(idxs) : y <= x
         IN  <<m>> \o sort_reverse(del(idxs, index(idxs, m)))

remove_columns(h, ds, hd, colnames, inplace) ==
    IF _is_valid_colnames(h.header[hd], colnames)
    THEN del_columns(bind(h, ds, hd, inplace),
            sort_reverse([i \in 1..Len(colnames.l) |-> index(h.header[hd], colnames.l[i])]))
    ELSE NoneNone(h)

(***************************************************************************)
(* Calls of the column editors                                             *)
(***************************************************************************)
\* the editor fn, called with arguments a, ends with result r
FinishEdit(fn, a, r) ==
    /\ Finish(fn, r.ret)
    /\ heap' = r.heap
    /\ args' = a
    /\ UNCHANGED <<value, dataset, header, generate_report, printed, extract_vars>>

Call_add_column ==
    \E colname \in ColnameArgs, n \in 0..(MaxRows + 1), inplace \in BOOLEAN :
        FinishEdit("add_column",
                   [colname |-> colname, coldata |-> ColData(n), inplace |-> inplace],
                   add_column(heap, 1, 1, colname, ColData(n), inplace))

Call_remove_column ==
    \E colname \in ColnameArgs, inplace \in BOOLEAN :
        FinishEdit("remove_column",
                   [colname |-> colname, inplace |-> inplace],
                   remove_column(heap, 1, 1, colname, inplace))

Call_modify_column ==
    \E colname \in ColnameArgs, n \in 0..(MaxRows + 1), inplace \in BOOLEAN :
        FinishEdit("modify_column",
                   [colname |-> colname, coldata |-> ColData(n), inplace |-> inplace],
                   modify_column(heap, 1, 1, colname, ColData(n), inplace))

Call_transform_column ==
    \E colname \in ColnameArgs, transform \in Transforms, inplace \in BOOLEAN :
        FinishEdit("transform_column",
                   [colname |-> colname, transform |-> transform, inplace |-> inplace],
                   transform_column(heap, 1, 1, colname, transform, inplace))

Call_remove_columns ==
    \E colnames \in ColnamesArgs, inplace \in BOOLEAN :
        FinishEdit("remove_columns",
                   [colnames |-> colnames, inplace |-> inplace],
                   remove_columns(heap, 1, 1, colnames, inplace))

\* the caller holds a dataset of up to MaxRows rows under a prefix of the
\* header of the tests
InitEdit ==
    /\ pc = "start"
    /\ called = "none"
    /\ value = NonStr("NoneType")
    /\ ret = NoRet
    /\ dataset = <<>>
    /\ header = <<>>
    /\ generate_report = FALSE
    /\ printed = <<>>
    /\ NoExtract
    /\ \E n \in 0..MaxRows, k \in 0..Len(EditNames) : heap = CallerHeap(n, k)
    /\ args = <<>>

NextEdit ==
    \/ Call_add_column
    \/ Call_remove_column
    \/ Call_modify_column
    \/ Call_transform_column
    \/ Call_remove_columns

SpecEdit == InitEdit /\ [][NextEdit]_vars

(***************************************************************************)
(* A column added and removed again                                        *)
(*                                                                         *)
(* remove_column is called on the unpacked pair that add_column returns,   *)
(* with the same colname and inplace.  The caller's rows need not have the *)
(* length of the header.                                                   *)
(***************************************************************************)
\* the lengths of a row under a header of k names: one cell short, as long
\* as the header, one cell long
RowLens(k) == {l \in {k - 1, k, k + 1} : l >= 0}

\* the cell of row r at position c: c followed by r under a name of the
\* header of the tests, 'x' followed by r beyond it
CellAt(c, r) ==
    IF c <= Len(EditNames) THEN <<EditNames[c], Digit(r)>> ELSE <<"x", Digit(r)>>

\* the caller's lists: n rows, row r of lens[r] cells, under the first k
\* names
RaggedHeap(n, k, lens) ==
    [dataset |-> (1 :> [r \in 1..n |-> r]),
     header |-> (1 :> SubSeq(EditNames, 1, k)),
     row |-> [r \in 1..n |-> [c \in 1..lens[r] |-> CellAt(c, r)]]]

\* remove_column on the unpacked result a of add_column: for
\* (None, None) the test `colname in header` fails on None when colname is
\* a str, and otherwise (None, None) is returned
unpack_remove_column(a, colname, inplace) ==
    IF a.ret.val = <<0, 0>>
    THEN IF isinstance(colname, "str") THEN Result(a.heap, Raised("TypeError"))
         ELSE NoneNone(a.heap)
    ELSE remove_column(a.heap, a.ret.val[1], a.ret.val[2], colname, inplace)

add_then_remove(h, colname, coldata, inplace) ==
    unpack_remove_column(add_column(h, 1, 1, colname, coldata, inplace),
                         colname, inplace)

Call_add_then_remove ==
    \E colname \in ColnameArgs, n \in 0..(MaxRows + 1), inplace \in BOOLEAN :
        FinishEdit("add_then_remove",
                   [colname |-> colname, coldata |-> ColData(n), inplace |-> inplace],
                   add_then_remove(heap, colname, ColData(n), inplace))

\* the caller holds a dataset of up to MaxRows rows, each of the length of
\* the header or one cell off, under a prefix of the header of the tests
InitRoundTrip ==
    /\ pc = "start"
    /\ called = "none"
    /\ value = NonStr("NoneType")
    /\ ret = NoRet
    /\ dataset = <<>>
    /\ header = <<>>
    /\ generate_report = FALSE
    /\ printed = <<>>
    /\ NoExtract
    /\ \E n \in 0..MaxRows, k \in 0..Len(EditNames) :
          \E lens \in [1..n -> RowLens(k)] : heap = RaggedHeap(n, k, lens)
    /\ args = <<>>

NextRoundTrip == Call_add_then_remove

SpecRoundTrip == InitRoundTrip /\ [][NextRoundTrip]_vars

(***************************************************************************)
(* The row extractors                                                      *)
(*                                                                         *)
(* extract_rows returns None, a pair of None, or a dataset and a header;   *)
(* extract_row_range returns None or a dataset.  None is <<0>>.            *)
(***************************************************************************)
\* return None
None(h) == Result(h, Returned(<<0>>))

\* the sieves: None; a list, which is not callable; a built-in callable of
\* two arguments, which has no __code__; the functions of the tests,
\* lambda row, header: True with one to three arguments and
\* lambda row, header: row[header.index('c')] > 'c1'
Sieves ==
    {[kind |-> k, argc |-> 0, body |-> "none"] : k \in {"NoneType", "list"}}
    \cup {[kind |-> "builtin", argc |-> 2, body |-> "none"]}
    \cup {[kind |-> "function", argc |-> n, body |-> "True"] : n \in 1..3}
    \cup {[kind |-> "function", argc |-> 2, body |-> "c > 'c1'"]}

\* sieve(row, header): the bool returned, or the ValueError of header.index
sieve_call(sieve, row, hdr) ==
    IF sieve.body = "True" THEN Returned(TRUE)
    ELSE IF ~InList("c", hdr) THEN Raised("ValueError")
    ELSE Returned(str_lt(<<"c", "1">>, row[index(hdr, "c") + 1]))

\* for row in dataset: if sieve(row, header): row_subset.append(row[:]),
\* from the i-th row on: the rows whose copies are in row_subset
RECURSIVE sieve_rows(_, _, _, _, _)
sieve_rows(h, ids, hdr, sieve, i) ==
    IF i > Len(ids) THEN [kept |-> <<>>, exc |-> "none"]
    ELSE IF sieve_call(sieve, h.row[ids[i]], hdr).exc # "none"
    THEN [kept |-> <<>>, exc |-> sieve_call(sieve, h.row[ids[i]], hdr).exc]
    ELSE [kept |-> (IF sieve_call(sieve, h.row[ids[i]], hdr).val
                    THEN <<ids[i]>> ELSE <<>>)
                   \o sieve_rows(h, ids, hdr, sieve, i + 1).kept,
          exc |-> sieve_rows(h, ids, hdr, sieve, i + 1).exc]

\* row_subset = dataset[:]: a new list of the same rows
slice_all(h, ds) ==
    [heap |-> [h EXCEPT !.dataset = Append(@, h.dataset[ds])],
     ds |-> Len(h.dataset) + 1]

\* row_subset is a new list of new rows, the copies of the rows kept
copy_kept(h, kept) ==
    [heap |-> [h EXCEPT
                 !.dataset = Append(@, [j \in 1..Len(kept) |-> Len(h.row) + j]),
                 !.row = @ \o [j \in 1..Len(kept) |-> h.row[kept[j]]]],
     ds |-> Len(h.dataset) + 1]

\* header[:]
copy_header(f, hd) ==
    [heap |-> [f.heap EXCEPT !.header = Append(@, f.heap.header[hd])],
     ds |-> f.ds, hd |-> Len(f.heap.header) + 1]

\* [x for x in header if x not in set(colnames)]
columns_to_remove(hdr, colnames) ==
    LET removed(x) == ~InList(x, colnames.l)
    IN  ListObj(SelectSeq(hdr, removed))

\* what extract_rows does with row_subset, f.ds: with no colnames it is
\* returned with header[:]; else the columns not nominated are removed
select_columns(h, f, hd, colnames, inplace) ==
    IF colnames = NoneObj THEN Pair(copy_header(f, hd))
    ELSE IF _is_valid_colnames(h.header[hd], colnames)
    THEN remove_columns(copy_header(f, hd).heap, f.ds, copy_header(f, hd).hd,
                        columns_to_remove(h.header[hd], colnames), inplace)
    ELSE None(h)

\* row_subset when a predicate is given, then the columns
sieve_and_select(h, ds, hd, sieve, colnames, inplace) ==
    IF ~callable(sieve) THEN None(h)
    ELSE IF sieve.kind # "function" THEN Result(h, Raised("AttributeError"))
    ELSE IF sieve.argc # 2 THEN None(h)
    ELSE IF sieve_rows(h, h.dataset[ds], h.header[hd], sieve, 1).exc # "none"
    THEN Result(h, Raised(sieve_rows(h, h.dataset[ds], h.header[hd], sieve, 1).exc))
    ELSE select_columns(h,
            copy_kept(h, sieve_rows(h, h.dataset[ds], h.header[hd], sieve, 1).kept),
            hd, colnames, inplace)

\* extract_rows of src/dqstutil.py: the predicate is required, and the
\* columns are removed from row_subset in place
extract_rows(h, ds, hd, predicate, colnames) ==
    sieve_and_select(h, ds, hd, predicate, colnames, TRUE)

\* extract_rows of src/dqstutil/dqstutil.py: with no sieve every row is
\* taken; the columns are removed from copies of row_subset
extract_rows_pkg(h, ds, hd, sieve, colnames) ==
    IF sieve = [kind |-> "NoneType", argc |-> 0, body |-> "none"]
    THEN select_columns(h, slice_all(h, ds), hd, colnames, FALSE)
    ELSE sieve_and_select(h, ds, hd, sieve, colnames, FALSE)

\* the bounds of a row range
RowBounds == -1..(MaxRows + 1)

\* the slice is taken up to upper_bound, not up to upper_bound + 1
extract_row_range_exclusive(h, ds, rowrange) ==
    IF rowrange[1] < 0 \/ rowrange[1] > rowrange[2] THEN None(h)
    ELSE IF rowrange[2] < rowrange[1] \/ rowrange[2] > Len(h.dataset[ds]) - 1
    THEN None(h)
    ELSE Result([h EXCEPT !.dataset =
                    Append(@, SubSeq(h.dataset[ds], rowrange[1] + 1, rowrange[2]))],
                Returned(<<Len(h.dataset) + 1>>))

\* dataset[lower_bound:(upper_bound+1)] and [dataset[lower_bound]] are new
\* lists of the rows lower_bound..upper_bound of dataset
extract_row_range(h, ds, rowrange) ==
    IF rowrange[1] < 0 \/ rowrange[1] > rowrange[2] THEN None(h)
    ELSE IF rowrange[2] < rowrange[1] \/ rowrange[2] > Len(h.dataset[ds]) - 1
    THEN None(h)
    ELSE Result([h EXCEPT !.dataset =
                    Append(@, SubSeq(h.dataset[ds], rowrange[1] + 1, rowrange[2] + 1))],
                Returned(<<Len(h.dataset) + 1>>))

(***************************************************************************)
(* Calls of the row extractors                                             *)
(***************************************************************************)
\* the argument colnames: absent (None), a list of names, or a dict
ExtractColnames == ColnamesArgs \cup {NoneObj}

Call_extract_rows ==
    \E predicate \in Sieves, colnames \in ExtractColnames :
        FinishEdit("extract_rows",
                   [sieve |-> predicate, colnames |-> colnames],
                   extract_rows(heap, 1, 1, predicate, colnames))

Call_extract_rows_pkg ==
    \E sieve \in Sieves, colnames \in ExtractColnames :
        FinishEdit("extract_rows_pkg",
                   [sieve |-> sieve, colnames |-> colnames],
                   extract_rows_pkg(heap, 1, 1, sieve, colnames))

Call_extract_row_range ==
    \E lower \in RowBounds, upper \in RowBounds :
        FinishEdit("extract_row_range",
                   [rowrange |-> <<lower, upper>>],
                   extract_row_range(heap, 1, <<lower, upper>>))

\* extract_rows has returned a dataset and a header
Extracted ==
    /\ pc = "done"
    /\ called \in {"extract_rows", "extract_rows_pkg"}
    /\ ret.exc = "none"
    /\ Len(ret.val) = 2
    /\ ret.val # <<0, 0>>

\* the caller's next call, on what extract_rows returned: add_column or
\* modify_column with inplace=True
EditExtracted(fn, r) ==
    /\ Extracted
    /\ pc' = "edited"
    /\ called' = fn
    /\ ret' = r.ret
    /\ heap' = r.heap
    /\ UNCHANGED <<args, value, dataset, header, generate_report, printed,
                   extract_vars>>

Call_edit_extracted ==
    /\ Extracted
    /\ \/ EditExtracted("add_column",
             add_column(heap, ret.val[1], ret.val[2], Name(NewName),
                        ColData(Len(heap.dataset[ret.val[1]])), TRUE))
       \/ \E c \in 1..Len(heap.header[ret.val[2]]) :
             EditExtracted("modify_column",
                modify_column(heap, ret.val[1], ret.val[2],
                              Name(heap.header[ret.val[2]][c]),
                              ColData(Len(heap.dataset[ret.val[1]])), TRUE))

NextRows ==
    \/ Call_extract_rows
    \/ Call_extract_rows_pkg
    \/ Call_extract_row_range
    \/ Call_edit_extracted

SpecRows == InitEdit /\ [][NextRows]_vars

(***************************************************************************)
(* The frequency table                                                     *)
(*                                                                         *)
(* A dict is the sequence of its items in insertion order; an item of the  *)
(* table is [key, count, pct], pct being the pair <<count * 100,           *)
(* total_rows>> whose quotient is the percentage.  A cell is an int or a   *)
(* str of the unique-value extractor.                                      *)
(***************************************************************************)
MaxFreqRows == 3

\* the headers of the datasets of the table: column a alone, before or
\* after a column b, or no column
FreqHeaders == {<<>>, <<"a">>, <<"a", "b">>, <<"b", "a">>}

\* the dataset with the cells col in column a, and 'a' in column b
FreqDataset(hdr, col) ==
    [r \in 1..Len(col) |->
        [c \in 1..Len(hdr) |-> IF hdr[c] = "a" THEN col[r] ELSE StrObj(<<"a">>)]]

DictObjOf(items) == [t |-> "dict", items |-> items]

\* the position of the item of key k in table tbl, 0 when k is not a key
item_of(tbl, k) ==
    IF \E i \in 1..Len(tbl) : tbl[i].key = k
    THEN CHOOSE i \in 1..Len(tbl) : tbl[i].key = k
    ELSE 0

\* for row in dataset: count row[idx], from the i-th row on
RECURSIVE count_rows(_, _, _, _)
count_rows(ds, idx, i, tbl) ==
    IF i > Len(ds) THEN tbl
    ELSE IF item_of(tbl, ds[i][idx + 1]) = 0
    THEN count_rows(ds, idx, i + 1,
                    Append(tbl, [key |-> ds[i][idx + 1], count |-> 1]))
    ELSE count_rows(ds, idx, i + 1,
                    [tbl EXCEPT ![item_of(tbl, ds[i][idx + 1])].count = @ + 1])

\* meta[1] = (meta[0] / total_rows) * 100
percentages(tbl, total_rows) ==
    [i \in 1..Len(tbl) |->
        [key |-> tbl[i].key, count |-> tbl[i].count,
         pct |-> <<tbl[i].count * 100, total_rows>>]]

\* item x sorts before item y
item_before(x, y, by_value, reverse) ==
    IF by_value
    THEN (IF reverse THEN y.count < x.count ELSE x.count < y.count)
    ELSE (IF reverse THEN lt(y.key, x.key) ELSE lt(x.key, y.key))

\* l, which is sorted, with x put before the first item x sorts before:
\* the sort is stable, also when reverse is set
RECURSIVE insort_item(_, _, _, _)
insort_item(l, x, by_value, reverse) ==
    IF l = <<>> THEN <<x>>
    ELSE IF item_before(x, Head(l), by_value, reverse) THEN <<x>> \o l
    ELSE <<Head(l)>> \o insort_item(Tail(l), x, by_value, reverse)

RECURSIVE sort_items_from(_, _, _, _, _)
sort_items_from(l, i, acc, by_value, reverse) ==
    IF i > Len(l) THEN acc
    ELSE sort_items_from(l, i + 1, insort_item(acc, l[i], by_value, reverse),
                         by_value, reverse)

\* dict(sorted(freq_table.items(), key=..., reverse=reverse)): the keys of
\* an int and of a str cannot be compared
sorted_items(tbl, by_value, reverse) ==
    IF ~by_value /\ \E i, j \in 1..Len(tbl) : type(tbl[i].key) # type(tbl[j].key)
    THEN Raised("TypeError")
    ELSE Returned(DictObjOf(sort_items_from(tbl, 1, <<>>, by_value, reverse)))

gen_freq_table(ds, hdr, colname, sort_by_value, reverse) ==
    IF InList(colname, hdr)
    THEN sorted_items(percentages(count_rows(ds, index(hdr, colname), 1, <<>>),
                                  Len(ds)),
                      sort_by_value, reverse)
    ELSE Returned(NoneObj)

(***************************************************************************)
(* Calls of gen_freq_table                                                 *)
(***************************************************************************)
Call_gen_freq_table ==
    \E colname \in {"a", "b", "Z"}, sort_by_value \in BOOLEAN, reverse \in BOOLEAN :
        /\ Finish("gen_freq_table",
                  gen_freq_table(dataset, header, colname, sort_by_value, reverse))
        /\ args' = [colname |-> colname, sort_by_value |-> sort_by_value,
                    reverse |-> reverse]
        /\ UNCHANGED <<value, dataset, header, generate_report, printed,
                       extract_vars, heap>>

InitFreq ==
    /\ pc = "start"
    /\ called = "none"
    /\ value = NonStr("NoneType")
    /\ ret = NoRet
    /\ header \in FreqHeaders
    /\ \E col \in SeqsUpTo(Scalars, MaxFreqRows) : dataset = FreqDataset(header, col)
    /\ generate_report = FALSE
    /\ printed = <<>>
    /\ NoExtract
    /\ NoEdit

NextFreq == Call_gen_freq_table

SpecFreq == InitFreq /\ [][NextFreq]_vars

(***************************************************************************)
(* The unique values count of one column                                   *)
(***************************************************************************)
\* the cells of the datasets counted: a text, a numeric, a possible numeric
\* and a possible date
UniqueCells ==
    {Str(<<"a">>), Str(<<"1">>), Str(<<"$", "1">>), Str(<<"/", "/">>)}

\* the arguments colname: names in or out of the header, and a list
UniqueColnames == {Name("a"), Name("b"), Name(NewName), ListObj(<<>>)}

RECURSIVE collect_unique_values(_, _, _, _)

\* add_unique_value without the test that the value is new
add_unique_value_always(ds, colidx, unique, r, coltype) ==
    IF coltype \notin TypeTags THEN [exc |-> coltype, unique |-> unique]
    ELSE collect_unique_values(ds, colidx,
            DictSet(unique, coltype, PyList(Append(unique[coltype].v, ds[r][colidx + 1]))),
            r + 1)

\* row r: coltype is the type of its value or the exception
\* determine_column_type raised
add_unique_value(ds, colidx, unique, r, coltype) ==
    IF coltype \notin TypeTags THEN [exc |-> coltype, unique |-> unique]
    ELSE IF ~InList(ds[r][colidx + 1], unique[coltype].v)
    THEN collect_unique_values(ds, colidx,
            DictSet(unique, coltype, PyList(Append(unique[coltype].v, ds[r][colidx + 1]))),
            r + 1)
    ELSE collect_unique_values(ds, colidx, unique, r + 1)

\* for row in dataset: colval = row[colidx] ..., from row r on; a row with
\* no cell at colidx ends the loop with IndexError
collect_unique_values(ds, colidx, unique, r) ==
    IF r > Len(ds) THEN [exc |-> "none", unique |-> unique]
    ELSE IF colidx >= Len(ds[r]) THEN [exc |-> "IndexError", unique |-> unique]
    ELSE add_unique_value(ds, colidx, unique, r,
                          determine_column_type(ds[r][colidx + 1]))

\* the buckets replaced by their lengths, the empty ones deleted
return_counts(collected) ==
    IF collected.exc # "none" THEN Raised(collected.exc)
    ELSE Returned(Counts(count_buckets(collected.unique, 1).unique))

gen_unique_values_count(ds, h, colname) ==
    IF isinstance(colname, "str") /\ InList(colname.name, h)
    THEN return_counts(collect_unique_values(ds, index(h, colname.name), FourBuckets, 1))
    ELSE Returned("None")

(***************************************************************************)
(* Calls of gen_unique_values_count and of the four-bucket scanner         *)
(***************************************************************************)
Call_gen_unique_values_count ==
    \E colname \in UniqueColnames :
        /\ Finish("gen_unique_values_count",
                  gen_unique_values_count(dataset, header, colname))
        /\ args' = [colname |-> colname]
        /\ UNCHANGED <<value, dataset, header, generate_report, printed,
                       extract_vars, heap>>

InitUniques ==
    /\ pc = "start"
    /\ called = "none"
    /\ value = NonStr("NoneType")
    /\ ret = NoRet
    /\ dataset \in SeqsUpTo(SeqsUpTo(UniqueCells, MaxCols), MaxRows)
    /\ header \in Headers
    /\ generate_report = FALSE
    /\ printed = <<>>
    /\ NoExtract
    /\ NoEdit

NextUniques ==
    \/ Call_inspect_dataset_pkg
    \/ Call_gen_unique_values_count

SpecUniques == InitUniques /\ [][NextUniques]_vars

(***************************************************************************)
(* Properties of the unique-value extractor (SpecExtract)                  *)
(***************************************************************************)
DoneExtract == pc = "done" /\ called = "extract_unique_values"

IsScalar(x) == x.t \in {"int", "str"}

\* values is a non-empty list of scalars of one type
ScalarList ==
    /\ values.t = "list"
    /\ values.l # <<>>
    /\ \A i \in 1..Len(values.l) : IsScalar(values.l[i]) /\ values.l[i].t = values.l[1].t

\* the position of the first element of l equal to x
FirstAt(l, x) == CHOOSE i \in 1..Len(l) : l[i] = x /\ \A k \in 1..(i - 1) : l[k] # x

\* r holds each value of l exactly once
EachOnce(r, l) == Range(r) = Range(l) /\ Cardinality(Range(r)) = Len(r)

\* r holds each value of l exactly once, in the order of first occurrence
FirstOccurrences(r, l) ==
    /\ EachOnce(r, l)
    /\ \A i, j \in 1..Len(r) : i < j => FirstAt(l, r[i]) < FirstAt(l, r[j])

\* x comes before y in ascending order: as numbers for ints, character by
\* character in code-point order for strs
Before(x, y) == IF x.t = "int" THEN x.n < y.n ELSE str_lt(x.s, y.s)

\* C14: for a non-empty list of scalars of one type the extractor returns each
\* distinct value exactly once, in the order of first occurrence in the
\* input; with sort set it returns those same values in ascending order.
C14_Scalars ==
    (DoneExtract /\ ScalarList) =>
        /\ ret.exc = "none"
        /\ ret.val.t = "list"
        /\ ~sort => FirstOccurrences(ret.val.l, values.l)
        /\ sort =>
              /\ EachOnce(ret.val.l, values.l)
              /\ \A i, j \in 1..Len(ret.val.l) :
                    i < j => Before(ret.val.l[i], ret.val.l[j])

\* of three scalars the third repeats the first
C14_Witness ==
    /\ DoneExtract /\ ScalarList /\ ~sort
    /\ Len(values.l) = 3
    /\ values.l[3] = values.l[1]
    /\ values.l[2] # values.l[1]
    /\ ret.val = ListObj(<<values.l[1], values.l[2]>>)

\* values is a non-empty list of lists of n scalars, each list of one type
ListsOfLen(n) ==
    /\ values.t = "list"
    /\ values.l # <<>>
    /\ \A i \in 1..Len(values.l) :
          /\ values.l[i].t = "list"
          /\ Len(values.l[i].l) = n
          /\ \A k \in 1..n :
                IsScalar(values.l[i].l[k]) /\ values.l[i].l[k].t = values.l[i].l[1].t

\* C15 as claimed: for a list of one-element lists, sort unset, the
\* extractor returns the contained values deduplicated in the order of first
\* occurrence.
C15_SingleFirstOccurrence ==
    (DoneExtract /\ ListsOfLen(1) /\ ~sort) =>
        /\ ret.exc = "none"
        /\ ret.val.t = "list"
        /\ FirstOccurrences(ret.val.l, [i \in 1..Len(values.l) |-> values.l[i].l[1]])

\* values is rejected: not a list, empty, elements not all of one type, or
\* sublists not all of one length, an empty sublist, a sublist of mixed
\* types or one that holds a list
Rejected ==
    \/ values.t # "list"
    \/ values.l = <<>>
    \/ \E i \in 1..Len(values.l) : values.l[i].t # values.l[1].t
    \/ /\ values.l[1].t = "list"
       /\ \E i \in 1..Len(values.l) :
             \/ Len(values.l[i].l) # Len(values.l[1].l)
             \/ values.l[i].l = <<>>
             \/ \E k \in 1..Len(values.l[i].l) :
                   \/ values.l[i].l[k].t = "list"
                   \/ values.l[i].l[k].t # values.l[i].l[1].t

\* C16 as claimed: the extractor never raises; it returns None when values is
\* rejected and a list in every other case.
C16_NoneOrList ==
    DoneExtract =>
        /\ ret.exc = "none"
        /\ Rejected => ret.val = NoneObj
        /\ ~Rejected => ret.val.t = "list"

\* the text of a scalar: the characters of a str, the decimal digits of an
\* int of the model
TextOf(x) ==
    IF x.t = "str" THEN x.s
    ELSE CASE x.n = 2 -> <<"2">>
           [] x.n = 11 -> <<"1", "1">>

\* the texts of the elements of sublist t from position k on, with separator
\* between them
RECURSIVE JoinedForm(_, _, _)
JoinedForm(t, separator, k) ==
    IF k = Len(t) THEN TextOf(t[k])
    ELSE TextOf(t[k]) \o separator \o JoinedForm(t, separator, k + 1)

EditStep(fn) == pc = "start" /\ called' = fn

IsName(c) == c.t = "str" /\ c.name # ""
InHeader(c) == c.t = "str" /\ InList(c.name, heap.header[1])

\* the arguments of the call are those the editor accepts
Accepted ==
    \/ /\ EditStep("add_column")
       /\ IsName(args'.colname) /\ ~InHeader(args'.colname)
       /\ Len(args'.coldata) = Len(heap.dataset[1])
    \/ /\ EditStep("remove_column")
       /\ InHeader(args'.colname)
    \/ /\ EditStep("modify_column")
       /\ IsName(args'.colname) /\ InHeader(args'.colname)
       /\ Len(args'.coldata) = Len(heap.dataset[1])
    \/ /\ EditStep("transform_column")
       /\ IsName(args'.colname) /\ InHeader(args'.colname)
       /\ args'.transform.kind \in {"builtin", "function"}
       /\ args'.transform.argc \in {1, 3}
    \/ /\ EditStep("remove_columns")
       /\ args'.colnames.t = "list"
       /\ args'.colnames.l # <<>>
       /\ \A i \in 1..Len(args'.colnames.l) : InList(args'.colnames.l[i], heap.header[1])

EditFns ==
    {"add_column", "remove_column", "modify_column", "transform_column",
     "remove_columns"}

\* the caller's dataset, rows and header are after the step what they were
CallerUnchanged ==
    /\ heap'.dataset[1] = heap.dataset[1]
    /\ heap'.header[1] = heap.header[1]
    /\ \A r \in DOMAIN heap.row : heap'.row[r] = heap.row[r]

\* C18 as claimed: an editor called with accepted arguments returns a dataset
\* and a header; with inplace=False the caller's dataset, rows and header
\* are unchanged and the dataset, rows and header returned are new objects;
\* with inplace=True the dataset and header returned are the caller's own,
\* with the caller's rows.
C18_InplaceDecides ==
    [][Accepted =>
         /\ ret'.exc = "none"
         /\ ~args'.inplace =>
               /\ CallerUnchanged
               /\ ret'.val[1] \notin DOMAIN heap.dataset \cup {0}
               /\ ret'.val[2] \notin DOMAIN heap.header \cup {0}
               /\ \A i \in 1..Len(heap'.dataset[ret'.val[1]]) :
                     heap'.dataset[ret'.val[1]][i] \notin DOMAIN heap.row
         /\ args'.inplace =>
               /\ ret'.val = <<1, 1>>
               /\ heap'.dataset[1] = heap.dataset[1]]_vars

\* C19 as claimed: an editor called with arguments it rejects returns
\* (None, None) and leaves the dataset, its rows and the header unchanged,
\* also when inplace=True.
C19_Rejected ==
    [][((\E fn \in EditFns : EditStep(fn)) /\ ~Accepted) =>
         /\ ret' = Returned(<<0, 0>>)
         /\ heap' = heap]_vars

\* the elements of l at the positions of hdr whose name is not in names
Kept(l, hdr, names) ==
    LET keep(i) == IF InList(hdr[i], names) THEN <<>> ELSE <<l[i]>>
        from[i \in 1..(Len(hdr) + 1)] ==
            IF i > Len(hdr) THEN <<>> ELSE keep(i) \o from[i + 1]
    IN  from[1]

\* C20 as claimed: for a non-empty list colnames of header names, in any
\* order and with or without repeats, remove_columns returns the header
\* without the names of colnames and every row without the cells of those
\* columns, the others in their order; the number of rows is unchanged.
C20_RemovesExactly ==
    [][(EditStep("remove_columns") /\ Accepted) =>
         /\ ret'.exc = "none"
         /\ heap'.header[ret'.val[2]] =
               Kept(heap.header[1], heap.header[1], args'.colnames.l)
         /\ Len(heap'.dataset[ret'.val[1]]) = Len(heap.dataset[1])
         /\ \A i \in 1..Len(heap.dataset[1]) :
               heap'.row[heap'.dataset[ret'.val[1]][i]] =
                  Kept(heap.row[heap.dataset[1][i]], heap.header[1],
                       args'.colnames.l)]_vars

\* the column of the call, as a position of the caller's header from 1
ColOf(c) == index(heap.header[1], c.name) + 1

\* the header returned is the caller's header as it was, and the dataset
\* returned has as many rows as the caller's
SameShape ==
    /\ heap'.header[ret'.val[2]] = heap.header[1]
    /\ Len(heap'.dataset[ret'.val[1]]) = Len(heap.dataset[1])

\* row i of the dataset returned is row i of the caller's as it was, but for
\* the cell in column col, which is new(i)
RowsSetTo(col, new(_)) ==
    \A i \in 1..Len(heap.dataset[1]) :
        heap'.row[heap'.dataset[ret'.val[1]][i]] =
            [heap.row[heap.dataset[1][i]] EXCEPT ![col] = new(i)]

\* C21 as claimed: modify_column sets the cell of column colname in row i to
\* coldata[i], and transform_column with a transform of one argument sets
\* it to transform(old cell); the other cells, the number and order of the
\* rows and the header are unchanged.
C21_SetsColumn ==
    [][/\ (EditStep("modify_column") /\ Accepted) =>
            /\ ret'.exc = "none"
            /\ SameShape
            /\ LET new(i) == args'.coldata[i]
               IN  RowsSetTo(ColOf(args'.colname), new)
       /\ (EditStep("transform_column") /\ Accepted /\ args'.transform.argc = 1) =>
            /\ ret'.exc = "none"
            /\ SameShape
            /\ LET new(i) == transform1(heap.row[heap.dataset[1][i]][ColOf(args'.colname)])
               IN  RowsSetTo(ColOf(args'.colname), new)]_vars

(***************************************************************************)
(* Properties of the row extractors (SpecRows)                             *)
(***************************************************************************)
\* the step is a call of extract_rows, of either variant
RowsStep == pc = "start" /\ called' \in {"extract_rows", "extract_rows_pkg"}

\* the sieve of the call is absent: None, in the variant where it is optional
SieveAbsent == called' = "extract_rows_pkg" /\ args'.sieve.kind = "NoneType"

\* the sieve of the call is a callable of two arguments
TwoArgCallable ==
    args'.sieve.kind \in {"builtin", "function"} /\ args'.sieve.argc = 2

\* the predicate returns a bool for row i of the caller's dataset
PredicateReturns(i) ==
    args'.sieve.body = "c > 'c1'" => InList("c", heap.header[1])

\* the predicate returns true for row i of the caller's dataset
PredicateTrue(i) ==
    \/ SieveAbsent
    \/ args'.sieve.body = "True"
    \/ /\ args'.sieve.body = "c > 'c1'"
       /\ heap.row[heap.dataset[1][i]][index(heap.header[1], "c") + 1][2] \in {"2", "3", "4"}

\* every row is sieved: there is no sieve, or it is a two-argument callable
\* that returns for every row
Sieved ==
    \/ SieveAbsent
    \/ TwoArgCallable /\ \A i \in 1..Len(heap.dataset[1]) : PredicateReturns(i)

\* the rows of the caller's dataset, as they are before the call, for which
\* the predicate returns true, in their order
Retained ==
    LET from[i \in 1..(Len(heap.dataset[1]) + 1)] ==
            IF i > Len(heap.dataset[1]) THEN <<>>
            ELSE (IF PredicateTrue(i) THEN <<heap.row[heap.dataset[1][i]]>> ELSE <<>>)
                 \o from[i + 1]
    IN  from[1]

\* the elements of l at the positions of hdr whose name is in names
Nominated(l, hdr, names) ==
    LET keep(i) == IF InList(hdr[i], names) THEN <<l[i]>> ELSE <<>>
        from[i \in 1..(Len(hdr) + 1)] ==
            IF i > Len(hdr) THEN <<>> ELSE keep(i) \o from[i + 1]
    IN  from[1]

\* colnames is a non-empty list of names of the header
ColnamesGiven ==
    /\ args'.colnames.t = "list"
    /\ args'.colnames.l # <<>>
    /\ \A i \in 1..Len(args'.colnames.l) : InList(args'.colnames.l[i], heap.header[1])

\* colnames is an empty list, or a list with a name that is not in header
ColnamesBad == args'.colnames.t = "list" /\ ~ColnamesGiven

\* the call returned a dataset and a header
ReturnedPair == ret'.exc = "none" /\ Len(ret'.val) = 2 /\ ret'.val # <<0, 0>>

\* the rows of the dataset returned
ReturnedRows ==
    [i \in 1..Len(heap'.dataset[ret'.val[1]]) |-> heap'.row[heap'.dataset[ret'.val[1]][i]]]

\* C22 as claimed: extract_rows retains, in their order, exactly the rows
\* for which the two-argument predicate returns true; with colnames a
\* non-empty list of header names (some or all of the columns, in any
\* order) it returns those rows restricted to the nominated columns and a
\* header of exactly the nominated columns; it returns None when the
\* predicate is not a two-argument callable, or colnames is empty or names
\* a column that is not in header.
C22_RetainsAndSelects ==
    [][RowsStep =>
         /\ (Sieved /\ args'.colnames = NoneObj) =>
               /\ ReturnedPair
               /\ ReturnedRows = Retained
               /\ heap'.header[ret'.val[2]] = heap.header[1]
         /\ (Sieved /\ ColnamesGiven) =>
               /\ ReturnedPair
               /\ ReturnedRows =
                     [i \in 1..Len(Retained) |->
                        Nominated(Retained[i], heap.header[1], args'.colnames.l)]
               /\ heap'.header[ret'.val[2]] =
                     Nominated(heap.header[1], heap.header[1], args'.colnames.l)
         /\ ((~TwoArgCallable /\ ~SieveAbsent) \/ (Sieved /\ ColnamesBad)) =>
               ret' = Returned(<<0>>)]_vars

\* the caller's dataset, its rows and the header are after the step what
\* they were
CallerKept ==
    /\ heap'.dataset[1] = heap.dataset[1]
    /\ heap'.header[1] = heap.header[1]
    /\ \A i \in 1..Len(heap.dataset[1]) :
          heap'.row[heap.dataset[1][i]] = heap.row[heap.dataset[1][i]]

\* C23 as claimed: extract_rows, with or without sieve and colnames, leaves
\* the caller's dataset, rows and header unchanged; the dataset, rows and
\* header it returns are lists the caller did not have; and an edit in
\* place of what it returned leaves the caller's dataset, rows and header
\* unchanged.
C23_AlwaysCopies ==
    [][/\ RowsStep => CallerKept
       /\ (RowsStep /\ ReturnedPair) =>
             /\ ret'.val[1] \notin DOMAIN heap.dataset
             /\ ret'.val[2] \notin DOMAIN heap.header
             /\ \A i \in 1..Len(heap'.dataset[ret'.val[1]]) :
                   heap'.dataset[ret'.val[1]][i] \notin DOMAIN heap.row
       /\ (Extracted /\ pc' = "edited") => CallerKept]_vars

\* the step is a call of extract_row_range
RangeStep == pc = "start" /\ called' = "extract_row_range"

\* the bounds of the call are not a range of rows of the caller's dataset
RangeRejected ==
    \/ args'.rowrange[1] < 0
    \/ args'.rowrange[1] > args'.rowrange[2]
    \/ args'.rowrange[2] > Len(heap.dataset[1]) - 1

\* C24: extract_row_range(dataset, [lower, upper]) returns None when
\* lower < 0, lower > upper or upper > len(dataset) - 1; otherwise it returns
\* a new list of the upper - lower + 1 rows numbered lower..upper, in order;
\* the dataset is unchanged.
C24_RowRange ==
    [][RangeStep =>
         /\ CallerKept
         /\ RangeRejected => ret' = Returned(<<0>>)
         /\ ~RangeRejected =>
               /\ ret'.exc = "none"
               /\ Len(ret'.val) = 1
               /\ ret'.val[1] \notin DOMAIN heap.dataset \cup {0}
               /\ Len(heap'.dataset[ret'.val[1]]) =
                     args'.rowrange[2] - args'.rowrange[1] + 1
               /\ \A j \in 1..Len(heap'.dataset[ret'.val[1]]) :
                     heap'.dataset[ret'.val[1]][j] =
                        heap.dataset[1][args'.rowrange[1] + j]]_vars

\* rows 0 and 1 of a dataset of two rows under three columns were extracted
C24_Witness ==
    /\ pc = "done"
    /\ called = "extract_row_range"
    /\ args.rowrange = <<0, 1>>
    /\ Len(heap.header[1]) = 3
    /\ Len(heap.dataset[1]) = 2
    /\ ret = Returned(<<2>>)
    /\ heap.dataset[2] = <<1, 2>>
    /\ heap.row[2] = <<<<"a", "2">>, <<"b", "2">>, <<"c", "2">>>>

(***************************************************************************)
(* Properties of the frequency table (SpecFreq)                            *)
(***************************************************************************)
\* the cells of column colname of the dataset
ColumnCells(colname) ==
    {dataset[r][index(header, colname) + 1] : r \in 1..Len(dataset)}

\* the number of rows whose cell in column colname is v
RowsHolding(colname, v) ==
    Cardinality({r \in 1..Len(dataset) : dataset[r][index(header, colname) + 1] = v})

\* the sum of the counts of items
RECURSIVE SumCounts(_)
SumCounts(items) ==
    IF items = <<>> THEN 0 ELSE Head(items).count + SumCounts(Tail(items))

\* C25 as claimed: gen_freq_table returns None when colname is not in
\* header; otherwise the keys of the table are the distinct values of the
\* column, each once, the count of a key is the number of rows holding it,
\* the counts sum to len(dataset), and the items are in ascending order of
\* key, or of count when sort_by_value is set, and in descending order when
\* reverse is set.
C25_FreqTable ==
    (pc = "done" /\ called = "gen_freq_table") =>
        /\ ~InList(args.colname, header) => ret = Returned(NoneObj)
        /\ InList(args.colname, header) =>
              /\ ret.exc = "none"
              /\ ret.val.t = "dict"
              /\ {ret.val.items[i].key : i \in 1..Len(ret.val.items)} =
                    ColumnCells(args.colname)
              /\ \A i, j \in 1..Len(ret.val.items) :
                    i # j => ret.val.items[i].key # ret.val.items[j].key
              /\ \A i \in 1..Len(ret.val.items) :
                    ret.val.items[i].count =
                       RowsHolding(args.colname, ret.val.items[i].key)
              /\ SumCounts(ret.val.items) = Len(dataset)
              /\ \A i \in 1..(Len(ret.val.items) - 1) :
                    LET x == ret.val.items[IF args.reverse THEN i + 1 ELSE i]
                        y == ret.val.items[IF args.reverse THEN i ELSE i + 1]
                    IN  IF args.sort_by_value THEN x.count <= y.count
                        ELSE lt(x.key, y.key)

(***************************************************************************)
(* Further properties of the dataset scanner (SpecInspect)                 *)
(***************************************************************************)
\* no name is twice in the header
DistinctHeader == \A i, j \in 1..Len(header) : i # j => header[i] # header[j]

\* the sum of the counts of the dict d
RECURSIVE SumOf(_)
SumOf(d) ==
    IF DOMAIN d = {} THEN 0
    ELSE LET k == CHOOSE x \in DOMAIN d : TRUE
         IN  d[k] + SumOf(DictDel(d, k))

\* C26: for a header of distinct names, the tag counts of every column of
\* the histogram inspect_dataset returns sum to the number of
\* length-conformant rows, and every count stored is at least 1.
C26_CountsSum ==
    (DoneInspect /\ DistinctHeader) =>
        \A c \in Range(header) :
            /\ SumOf(Meta.columns[c]) =
                  Cardinality({r \in 1..Len(dataset) : Conformant(r)})
            /\ \A t \in DOMAIN Meta.columns[c] : Meta.columns[c][t] >= 1

\* of two rows under two columns the second is too short, and each column
\* counts the one conformant row
C26_Witness ==
    /\ DoneInspect
    /\ DistinctHeader
    /\ Len(header) = 2
    /\ Len(dataset) = 2
    /\ Conformant(1)
    /\ Len(dataset[2]) < Len(header)
    /\ \A c \in Range(header) : SumOf(Meta.columns[c]) = 1

\* every row of the dataset has the header's length
AllConformant == \A r \in 1..Len(dataset) : Conformant(r)

TagPDFirst(v) ==
    IF is_numeric(v) THEN "N"
    ELSE IF is_possible_date(v) THEN "PD"
    ELSE IF is_possible_numeric(v) THEN "PN"
    ELSE "T"

\* C28: for every str, is_possible_numeric and is_possible_date are never
\* both true; determine_column_type returns the tag that the tests made in
\* the order N, PD, PN, else T give; and every date-like str that is not
\* numeric is tagged 'PD'.
C28_OrderImmaterial ==
    (Done("determine_column_type") /\ value.kind = "str") =>
        /\ ~(is_possible_numeric(value) /\ is_possible_date(value))
        /\ ret.val = TagPDFirst(value)
        /\ (~is_numeric(value) /\ DateLike(value.str)) => ret.val = "PD"

\* a date-like str with a digit, at most one '.' and at most one '$', not
\* numeric, has been tagged 'PD'
C28_Witness ==
    /\ Done("determine_column_type")
    /\ value.kind = "str"
    /\ ~is_numeric(value)
    /\ DateLike(value.str)
    /\ CountOf(value.str, {"1"}) >= 1
    /\ CountOf(value.str, {"."}) <= 1
    /\ CountOf(value.str, {"$"}) <= 1
    /\ ret.val = "PD"

(***************************************************************************)
(* Further properties of the unique-value extractor (SpecExtract)          *)
(***************************************************************************)
\* no two elements of l are equal
NoTwoEqual(l) == \A i, j \in 1..Len(l) : i # j => l[i] # l[j]

\* the call returned a list built from scalars, not from sublists
ScalarResult ==
    /\ DoneExtract
    /\ ret.exc = "none"
    /\ ret.val # NoneObj
    /\ ~isinstance(values.l[1], "list")

\* C29: every list the extractor returns, from scalars, from one-element
\* sublists or from longer sublists joined with any sep, sorted or not, holds
\* no two equal elements; and the extractor applied to the list it returned
\* for scalars returns that list unchanged.
C29_NoDuplicates ==
    /\ (DoneExtract /\ ret.exc = "none" /\ ret.val # NoneObj)
            => NoTwoEqual(ret.val.l)
    /\ ScalarResult
            => extract_unique_values(ret.val, sort, sep, <<>>) = ret

(***************************************************************************)
(* Properties of a column added and removed again (SpecRoundTrip)          *)
(***************************************************************************)
\* the call is made with a name that is not in the header and a coldata of
\* one element for each row
RoundTripStep ==
    /\ EditStep("add_then_remove")
    /\ isinstance(args'.colname, "str")
    /\ args'.colname.name # ""
    /\ ~InList(args'.colname.name, heap.header[1])
    /\ Len(args'.coldata) = Len(heap.dataset[1])

\* the caller's dataset, rows and header hold in h what they hold now
CallerHolds(h) ==
    /\ h.dataset[1] = heap.dataset[1]
    /\ h.header[1] = heap.header[1]
    /\ \A r \in DOMAIN heap.row : h.row[r] = heap.row[r]

\* C30: for any dataset, header, name not in header and coldata of one
\* element for each row, remove_column on what add_column returns gives a
\* header and a dataset equal to the caller's as they were; with
\* inplace=False the caller's lists are unchanged after add_column and
\* after remove_column, with inplace=True the lists returned are the
\* caller's own and hold again what they held.
C30_RoundTrip ==
    [][RoundTripStep =>
         /\ ret'.exc = "none"
         /\ ret'.val # <<0, 0>>
         /\ heap'.header[ret'.val[2]] = heap.header[1]
         /\ Len(heap'.dataset[ret'.val[1]]) = Len(heap.dataset[1])
         /\ \A i \in 1..Len(heap.dataset[1]) :
               heap'.row[heap'.dataset[ret'.val[1]][i]] = heap.row[heap.dataset[1][i]]
         /\ CallerHolds(heap')
         /\ ~args'.inplace =>
               CallerHolds(add_column(heap, 1, 1, args'.colname, args'.coldata, FALSE).heap)
         /\ args'.inplace => ret'.val = <<1, 1>>]_vars

====
